---- MODULE Spec2Model ----
(***************************************************************************)
(* Cursor-Tools: the patch-and-backup file mutation routines               *)
(* (FileManager.safe_file_modify, modify_workbench_js, modify_main_js,     *)
(* patch_cursor_get_machine_id, UpdateDisabler._remove_update_url,         *)
(* modify_ui_files) and BackupManager (create_backup, restore_backup).     *)
(*                                                                         *)
(* The application runs on Windows only (main.py:37), so the file system   *)
(* is modelled with Windows semantics: text files are read with universal  *)
(* newlines and written with "\n" -> "\r\n", a read-only file cannot be    *)
(* removed or overwritten, and shutil.move onto an existing file is a      *)
(* copy followed by an unlink.                                             *)
(***************************************************************************)
EXTENDS Integers, Sequences, FiniteSets, TLC

\* Bounds of the model.
MaxLen == 2      \* longest initial file content, in bytes
MaxCalls == 2    \* mutation calls per behaviour
MaxTime == 1     \* last second of the clock (timestamps 0..MaxTime)
MaxOps == 3      \* BackupManager calls per behaviour
MaxEdits == 1    \* outside changes to the disk per behaviour
MaxFaults == 1   \* I/O errors per behaviour
MaxContent == 1  \* file contents are 0..MaxContent
MaxDay == 1      \* manifest dates are days 0..MaxDay
MaxRootOps == 1  \* list_backups / cleanup_old_backups calls per behaviour
MaxRegOps == 2   \* device-id menu operations per behaviour
MaxVerLen == 3   \* longest version string, in characters
MaxAssets == 2   \* assets of a release
MaxStamp == 1    \* backup timestamps are 0..MaxStamp
MaxEntries == 3  \* entries added to the reset backup directory
MaxManifest == 3 \* files in the manifest of a backup folder
MaxDrift == 2    \* changes to a backup folder and its targets
MaxMenus == 4    \* times the main menu is shown

VARIABLES
    target,         \* the file being patched: [exists, content, mode]
    backups,        \* the backup directory: backup file name -> [content, mode]
    tmp,            \* the temporary file of the running call: [exists, content]
    leaked,         \* temporary files left on disk by finished calls
    now,            \* the wall clock, in seconds
    calls,          \* mutation calls started so far
    pc,             \* position of the running call ("idle" between calls)
    variant,        \* which routine is running
    rules,          \* its rule table (ordered, as a dict iterates)
    original_mode,  \* local: original_stat.st_mode
    content,        \* local: the text in memory
    tmp_path,       \* local: whether the name tmp_path is bound
    backup_path,    \* local: the backup file name of this call
    result,         \* what the call returned
    failedAt,       \* the step at which the call raised ("none" if it did not)
    pre,            \* the disk as it was when the call started
    orig,           \* the target's content before the first call
    mutated         \* whether some call has returned success

mvars == <<target, backups, tmp, leaked, now, calls, pc, variant, rules,
           original_mode, content, tmp_path, backup_path, result, failedAt,
           pre, orig, mutated>>

\* BackupManager (utils.py): the sources it snapshots and its backup root.
VARIABLES
    files,          \* source path -> node ([kind, data]; kind "none": no such path)
    store,          \* the backup root: backup id -> [copy, manifest]
    clock,          \* the wall clock, in seconds
    ops,            \* BackupManager calls made so far
    edits,          \* changes made to the disk from outside BackupManager
    faults,         \* I/O errors raised so far
    last,           \* the last call: what it was given, what it returned, the disk before it
    issued,         \* the ids create_backup has returned to its callers
    made            \* <<id, source_path, source>> at each return of an id

bvars == <<files, store, clock, ops, edits, faults, last, issued, made>>

\* The backup root as list_backups and cleanup_old_backups find it (utils.py,
\* pro_features.py). Dates are counted in days.
VARIABLES
    root,           \* folder name -> [status, backup_type, ts, created]
    today,          \* datetime.now(), in days
    rops,           \* calls made so far
    rlast           \* the last call: its arguments, the root before it, what it returned

rvars == <<root, today, rops, rlast>>

\* The registry and the application in front of it (registry_manager.py,
\* device_id_modifier.py, main.py, reset_machine_id.py).
VARIABLES
    reg,            \* key -> [key state, values]
    elevated,       \* the process runs as administrator
    gpc,            \* where the application is: "start", "menu", "exited"
    saved,          \* the registry backups on disk, oldest first
    gops,           \* menu operations run so far
    glog            \* the last menu operation and what it did

gvars == <<reg, elevated, gpc, saved, gops, glog>>

\* A version comparison (version_manager.py, auto_update_manager.py).
VARIABLES
    latest,         \* the first argument
    current,        \* the second argument
    verdict         \* what the call made of them

vvars == <<latest, current, verdict>>

\* An update check and what follows it (auto_update_manager.py).
VARIABLES
    net1,           \* what the network answers to the update check
    net2,           \* what it answers to the retry
    tag,            \* tag_name of the latest release
    assets,         \* the names of its assets
    upc,            \* where perform_update_check_and_install is
    requests,       \* the requests made, each with its verify setting
    info,           \* update_info
    steps,          \* the steps taken so far
    file            \* the downloaded file

uvars == <<net1, net2, tag, assets, upc, requests, info, steps, file>>

\* The reset backup directory and its restore selector
\* (reset_machine_id_manager.py).
VARIABLES
    sdir,           \* the entries of the reset backup directory
    written,        \* every backup file written so far, wherever it went
    listing,        \* what the selector returned
    shown,          \* the selector has run since the last change
    sops            \* entries added so far

svars == <<sdir, written, listing, shown, sops>>

\* Restoring a backup folder file by file (reset_machine_id_manager.py,
\* pro_features.py).
VARIABLES
    ctargets,       \* the content of each target file of the manifest
    cpresent,       \* whether each file of the manifest is in the folder
    cpre,           \* the targets with a .pre-restore copy
    clast,          \* the last restore and what it returned
    cdrift          \* changes to folder and targets so far

cvars == <<ctargets, cpresent, cpre, clast, cdrift>>

\* The main menu loop (main.py).
VARIABLES
    apc,            \* where the application is
    achoice,        \* the last choice at the main menu
    avia,           \* where exit_application was called from
    aanswer,        \* the last answer to the exit confirmation
    ashown          \* how many times the main menu was shown

avars == <<apc, achoice, avia, aanswer, ashown>>

vars == <<mvars, bvars, rvars, gvars, vvars, uvars, svars, cvars, avars>>

\* What the actions of one component leave alone.
OutsideM == <<bvars, rvars, gvars, vvars, uvars, svars, cvars, avars>>
OutsideB == <<mvars, rvars, gvars, vvars, uvars, svars, cvars, avars>>
OutsideR == <<mvars, bvars, gvars, vvars, uvars, svars, cvars, avars>>
OutsideG == <<mvars, bvars, rvars, vvars, uvars, svars, cvars, avars>>
OutsideV == <<mvars, bvars, rvars, gvars, uvars, svars, cvars, avars>>
OutsideU == <<mvars, bvars, rvars, gvars, vvars, svars, cvars, avars>>
OutsideS == <<mvars, bvars, rvars, gvars, vvars, uvars, cvars, avars>>
OutsideC == <<mvars, bvars, rvars, gvars, vvars, uvars, svars, avars>>
OutsideA == <<mvars, bvars, rvars, gvars, vvars, uvars, svars, cvars>>

(***************************************************************************)
(* Text: bytes on disk, characters in memory.                              *)
(***************************************************************************)

\* Bytes of a file: two letters, the two line-ending bytes, and "X", a byte
\* that is not valid UTF-8.
Byte == {"a", "b", "LF", "CR", "X"}

SeqsUpTo(S, n) == UNION {[1..k -> S] : k \in 0..n}

\* open(path, "r", encoding="utf-8", errors="ignore"): undecodable bytes are dropped.
DecodeIgnore(bs) == SelectSeq(bs, LAMBDA c : c # "X")

\* open(path, "r", encoding="utf-8"): an undecodable byte raises UnicodeDecodeError.
DecodeRaises(bs) == \E i \in DOMAIN bs : bs[i] = "X"

\* Text mode, newline=None, on read: "\r\n" and "\r" become "\n".
RECURSIVE Universal(_)
Universal(s) ==
    IF s = <<>> THEN <<>>
    ELSE IF Head(s) = "CR"
         THEN IF Len(s) >= 2 /\ s[2] = "LF"
              THEN <<"LF">> \o Universal(SubSeq(s, 3, Len(s)))
              ELSE <<"LF">> \o Universal(Tail(s))
         ELSE <<Head(s)>> \o Universal(Tail(s))

ReadText(bs) == Universal(DecodeIgnore(bs))

\* Text mode, newline=None, on write under Windows: "\n" becomes "\r\n".
RECURSIVE WriteText(_)
WriteText(s) ==
    IF s = <<>> THEN <<>>
    ELSE IF Head(s) = "LF"
         THEN <<"CR", "LF">> \o WriteText(Tail(s))
         ELSE <<Head(s)>> \o WriteText(Tail(s))

\* Whether pat matches s at position i. In a regular expression "." matches
\* any character but a newline; in a literal it is the character ".".
MatchAt(s, i, pat, regex) ==
    /\ i + Len(pat) - 1 <= Len(s)
    /\ \A k \in 1..Len(pat) :
          \/ s[i + k - 1] = pat[k]
          \/ regex /\ pat[k] = "." /\ s[i + k - 1] # "LF"

\* str.replace / re.sub: leftmost non-overlapping matches, left to right.
RECURSIVE SubFrom(_, _, _, _, _)
SubFrom(s, i, pat, rep, regex) ==
    IF i > Len(s) THEN <<>>
    ELSE IF MatchAt(s, i, pat, regex)
         THEN rep \o SubFrom(s, i + Len(pat), pat, rep, regex)
         ELSE <<s[i]>> \o SubFrom(s, i + 1, pat, rep, regex)

(***************************************************************************)
(* Rule tables. A rule is [pat, rep, compiled, valid]: compiled says the   *)
(* key is a compiled pattern rather than a str (safe_file_modify tests     *)
(* isinstance(old_pattern, str)); valid is FALSE for a replacement that is *)
(* not a string, on which str.replace and re.sub raise TypeError.          *)
(***************************************************************************)
Rule(p, r, c, v) == [pat |-> p, rep |-> r, compiled |-> c, valid |-> v]

RuleTables ==
    { <<>>,
      << Rule(<<"a">>, <<"b">>, FALSE, TRUE) >>,
      << Rule(<<"a">>, <<"b">>, FALSE, TRUE), Rule(<<"b">>, <<"a">>, FALSE, TRUE) >>,
      << Rule(<<".">>, <<>>, TRUE, TRUE) >>,
      << Rule(<<"a">>, <<>>, FALSE, FALSE) >> }

Variants == {"sfm", "wb", "main", "patch", "old", "ui"}

\* The static tables of config.py hold strings only; safe_file_modify takes
\* whatever dict its caller passes.
TablesOf(v) ==
    IF v = "sfm" THEN RuleTables
    ELSE {t \in RuleTables : \A i \in DOMAIN t : t[i].valid}

\* modify_main_js and _remove_update_url pass every key to re.sub;
\* modify_workbench_js and modify_ui_files pass every key to str.replace.
UsesRegex(v, r) ==
    \/ v \in {"main", "patch", "old"}
    \/ v = "sfm" /\ r.compiled

\* The rules applied from the last one to the first.
RECURSIVE ApplyRulesLastFirst(_, _, _)
ApplyRulesLastFirst(v, text, rs) ==
    IF rs = <<>> THEN text
    ELSE SubFrom(ApplyRulesLastFirst(v, text, Tail(rs)), 1, Head(rs).pat,
                 Head(rs).rep, UsesRegex(v, Head(rs)))

RECURSIVE ApplyRules(_, _, _)
ApplyRules(v, text, rs) ==
    IF rs = <<>> THEN text
    ELSE ApplyRules(v, SubFrom(text, 1, Head(rs).pat, Head(rs).rep,
                               UsesRegex(v, Head(rs))),
                    Tail(rs))

TransformRaises(rs) == \E i \in DOMAIN rs : ~rs[i].valid

\* modify_ui_files: any(pattern in content for pattern in ui_patterns.keys())
ShouldModify(text, rs) ==
    \E i \in DOMAIN rs : \E j \in 1..Len(text) : MatchAt(text, j, rs[i].pat, FALSE)

\* The bytes a successful call leaves in the target.
Transformed(v, bs, rs) == WriteText(ApplyRules(v, ReadText(bs), rs))

(***************************************************************************)
(* The file system.                                                        *)
(***************************************************************************)
NoFile == [exists |-> FALSE, content |-> <<>>, mode |-> "none"]
NoTmp == [exists |-> FALSE, content |-> <<>>]
NoName == <<>>
EmptyDir == [n \in {} |-> <<>>]

\* shutil.copy2(src, dst): the bytes and the mode (the read-only attribute).
Put(dir, name, f) ==
    [n \in DOMAIN dir \cup {name} |->
        IF n = name THEN [content |-> f.content, mode |-> f.mode] ELSE dir[n]]

\* copy2 opens dst for writing: an existing read-only dst raises PermissionError.
CanWrite(dir, name) == name \in DOMAIN dir => dir[name].mode = "rw"

\* f"{filename}.{backup_suffix}.backup.{timestamp}" and its siblings; the
\* timestamp has a resolution of one second, and ".old" has none.
BackupName(v, t) ==
    CASE v = "sfm" -> <<"file.tag.backup", t>>
      [] v = "wb" -> <<"workbench.desktop.main.js.pro.backup", t>>
      [] v \in {"main", "patch"} -> <<"main.js.backup", t>>
      [] v = "old" -> <<"product.json.old", 0>>
      [] v = "ui" -> <<"file.pro.ui.backup", t>>

PatchBackupName(t) == <<"main.js.patch.backup", t>>

\* The order modify_workbench_js would have if it took its backup first, as
\* safe_file_modify does.
StepsBackupFirst(v) ==
    CASE v = "sfm" -> <<"check", "stat", "backup", "mktemp", "read", "transform",
                        "write", "remove", "move", "chmod">>
      [] v = "wb" -> <<"stat", "backup", "mktemp", "read", "transform", "write",
                       "remove", "move", "chmod">>
      [] v = "main" -> <<"stat", "mktemp", "read", "transform", "write", "backup",
                         "move", "copy", "chmod">>
      [] v = "patch" -> <<"pcheck", "pbackup", "stat", "mktemp", "read", "transform",
                          "write", "backup", "move", "copy", "chmod">>
      [] v = "old" -> <<"stat", "mktemp", "read", "transform", "write", "backup",
                        "move", "copy", "chmod">>
      [] v = "ui" -> <<"read", "match", "backup", "transform", "truncate", "uiwrite">>

\* The steps of each routine, in program order.
Steps(v) ==
    CASE v = "sfm" -> <<"check", "stat", "backup", "mktemp", "read", "transform",
                        "write", "remove", "move", "chmod">>
      [] v = "wb" -> <<"stat", "mktemp", "read", "transform", "write", "backup",
                       "remove", "move", "chmod">>
      [] v = "main" -> <<"stat", "mktemp", "read", "transform", "write", "backup",
                         "move", "copy", "chmod">>
      [] v = "patch" -> <<"pcheck", "pbackup", "stat", "mktemp", "read", "transform",
                          "write", "backup", "move", "copy", "chmod">>
      [] v = "old" -> <<"stat", "mktemp", "read", "transform", "write", "backup",
                        "move", "copy", "chmod">>
      [] v = "ui" -> <<"read", "match", "backup", "transform", "truncate", "uiwrite">>

StepAfter(v, p) ==
    LET s == Steps(v)
        i == CHOOSE k \in DOMAIN s : s[k] = p
    IN IF i = Len(s) THEN "done" ELSE s[i + 1]

(***************************************************************************)
(* The mutation routines, one action per file-system step.                 *)
(***************************************************************************)
Frame == UNCHANGED <<leaked, now, calls, variant, rules, pre, orig, OutsideM>>

\* The except clause. tmp_path is bound by the last statement of the with
\* block, so the unlink runs only when the failure came after the temporary
\* file was written. safe_file_modify and modify_workbench_js guard the unlink
\* with try/except; modify_main_js and _remove_update_url do not, and an unlink
\* of a temporary file that was already moved away raises out of them.
Raise ==
    /\ pc' = "done"
    /\ failedAt' = pc
    /\ tmp' = IF tmp_path THEN NoTmp ELSE tmp
    /\ result' = IF variant \in {"main", "old"} /\ tmp_path /\ ~tmp.exists
                 THEN "raise" ELSE "fail"
    /\ UNCHANGED <<target, backups, original_mode, content, tmp_path,
                   backup_path, mutated>>
    /\ Frame

Advance ==
    /\ pc' = StepAfter(variant, pc)
    /\ UNCHANGED <<result, failedAt, mutated>>
    /\ Frame

Succeed ==
    /\ pc' = "done"
    /\ result' = "ok"
    /\ mutated' = TRUE
    /\ UNCHANGED failedAt
    /\ Frame

Start(v, rs) ==
    /\ pc = "idle"
    /\ calls < MaxCalls
    /\ calls' = calls + 1
    /\ variant' = v
    /\ rules' = rs
    /\ pc' = Steps(v)[1]
    /\ pre' = [target |-> target, backups |-> backups]
    /\ UNCHANGED <<target, backups, tmp, leaked, now, original_mode, content,
                   tmp_path, backup_path, result, failedAt, orig, mutated, OutsideM>>

\* safe_file_modify: if not os.path.exists(file_path) or not os.access(file_path, os.W_OK)
Check ==
    /\ pc = "check"
    /\ IF target.exists /\ target.mode = "rw"
       THEN Advance
       ELSE /\ pc' = "done"
            /\ result' = "fail"
            /\ failedAt' = "check"
            /\ UNCHANGED mutated
            /\ Frame
    /\ UNCHANGED <<target, backups, tmp, original_mode, content, tmp_path, backup_path>>

\* patch_cursor_get_machine_id: os.path.isfile, os.access(W_OK), then the
\* version read from package.json and version_check, either of which can fail.
PatchCheck ==
    /\ pc = "pcheck"
    /\ \/ /\ target.exists /\ target.mode = "rw"
          /\ Advance
       \/ /\ pc' = "done"
          /\ result' = "fail"
          /\ failedAt' = "pcheck"
          /\ UNCHANGED mutated
          /\ Frame
    /\ UNCHANGED <<target, backups, tmp, original_mode, content, tmp_path, backup_path>>

\* patch_cursor_get_machine_id: if not os.path.exists(backup_path): shutil.copy2(...)
PatchBackup ==
    /\ pc = "pbackup"
    /\ \/ /\ backups' = IF PatchBackupName(now) \in DOMAIN backups THEN backups
                        ELSE Put(backups, PatchBackupName(now), target)
          /\ Advance
          /\ UNCHANGED <<target, tmp, original_mode, content, tmp_path, backup_path>>
       \/ /\ PatchBackupName(now) \notin DOMAIN backups
          /\ pc' = "done"
          /\ result' = "fail"
          /\ failedAt' = "pbackup"
          /\ UNCHANGED <<target, backups, tmp, original_mode, content, tmp_path,
                         backup_path, mutated>>
          /\ Frame

\* original_stat = os.stat(file_path); original_mode = original_stat.st_mode
Stat ==
    /\ pc = "stat"
    /\ IF target.exists
       THEN /\ original_mode' = target.mode
            /\ Advance
            /\ UNCHANGED <<target, backups, tmp, content, tmp_path, backup_path>>
       ELSE Raise

\* What shutil.copy2 copies into the backup file.
BackupSourceTmp == [content |-> tmp.content, mode |-> target.mode]
BackupSource == target

\* timestamp = datetime.now().strftime(...); shutil.copy2(file_path, backup_path)
Backup ==
    /\ pc = "backup"
    /\ \/ /\ target.exists
          /\ CanWrite(backups, BackupName(variant, now))
          /\ backups' = Put(backups, BackupName(variant, now), BackupSource)
          /\ backup_path' = BackupName(variant, now)
          /\ Advance
          /\ UNCHANGED <<target, tmp, original_mode, content, tmp_path>>
       \/ Raise

\* with tempfile.NamedTemporaryFile(mode="w", ..., delete=False) as tmp_file
MkTemp ==
    /\ pc = "mktemp"
    /\ tmp' = [exists |-> TRUE, content |-> <<>>]
    /\ Advance
    /\ UNCHANGED <<target, backups, original_mode, content, tmp_path, backup_path>>

\* content = main_file.read(): errors="ignore" in safe_file_modify,
\* modify_workbench_js and modify_ui_files, strict in the other two.
Read ==
    /\ pc = "read"
    /\ \/ /\ target.exists
          /\ variant \in {"main", "patch", "old"} => ~DecodeRaises(target.content)
          /\ content' = ReadText(target.content)
          /\ Advance
          /\ UNCHANGED <<target, backups, tmp, original_mode, tmp_path, backup_path>>
       \/ Raise

\* modify_ui_files: should_modify; a file without any pattern is left alone.
Match ==
    /\ pc = "match"
    /\ IF ShouldModify(content, rules)
       THEN Advance
       ELSE /\ pc' = "done"
            /\ result' = "skip"
            /\ UNCHANGED <<failedAt, mutated>>
            /\ Frame
    /\ UNCHANGED <<target, backups, tmp, original_mode, content, tmp_path, backup_path>>

\* for old_pattern, new_pattern in replacements.items(): content = ...
Transform ==
    /\ pc = "transform"
    /\ IF TransformRaises(rules)
       THEN Raise
       ELSE /\ content' = ApplyRules(variant, content, rules)
            /\ Advance
            /\ UNCHANGED <<target, backups, tmp, original_mode, tmp_path, backup_path>>

\* tmp_file.write(content); tmp_path = tmp_file.name
WriteTmp ==
    /\ pc = "write"
    /\ \/ /\ tmp' = [exists |-> TRUE, content |-> WriteText(content)]
          /\ tmp_path' = TRUE
          /\ Advance
          /\ UNCHANGED <<target, backups, original_mode, content, backup_path>>
       \/ Raise

\* if os.path.exists(file_path): os.remove(file_path)
Remove ==
    /\ pc = "remove"
    /\ \/ /\ target.exists => target.mode = "rw"
          /\ target' = NoFile
          /\ Advance
          /\ UNCHANGED <<backups, tmp, original_mode, content, tmp_path, backup_path>>
       \/ Raise

\* shutil.move(tmp_path, file_path). With the target removed it is a rename;
\* onto an existing target os.rename fails under Windows and shutil.move falls
\* back to copy2, which first opens the target for writing (truncating it).
Move ==
    /\ pc = "move"
    /\ \/ /\ ~target.exists
          /\ target' = [exists |-> TRUE, content |-> tmp.content, mode |-> "rw"]
          /\ tmp' = NoTmp
          /\ Advance
          /\ UNCHANGED <<backups, original_mode, content, tmp_path, backup_path>>
       \/ /\ target.exists
          /\ target.mode = "rw"
          /\ target' = [target EXCEPT !.content = <<>>]
          /\ Advance
          /\ UNCHANGED <<backups, tmp, original_mode, content, tmp_path, backup_path>>
       \/ Raise

\* The rest of the copy2 fallback: the bytes, copystat, then os.unlink(src).
Copy ==
    /\ pc = "copy"
    /\ \/ /\ target' = [exists |-> TRUE, content |-> tmp.content, mode |-> "rw"]
          /\ tmp' = NoTmp
          /\ Advance
          /\ UNCHANGED <<backups, original_mode, content, tmp_path, backup_path>>
       \/ Raise

\* The mode os.chmod(file_path, original_mode) sets.
RestoredModeReadOnly == "ro"
RestoredMode == original_mode

Chmod ==
    /\ pc = "chmod"
    /\ \/ /\ target' = [target EXCEPT !.mode = RestoredMode]
          /\ Succeed
          /\ UNCHANGED <<backups, tmp, original_mode, content, tmp_path, backup_path>>
       \/ Raise

\* modify_ui_files: with open(file_path, "w", ...) as f -- the open truncates.
Truncate ==
    /\ pc = "truncate"
    /\ \/ /\ target.mode = "rw"
          /\ target' = [target EXCEPT !.content = <<>>]
          /\ Advance
          /\ UNCHANGED <<backups, tmp, original_mode, content, tmp_path, backup_path>>
       \/ Raise

\* modify_ui_files: f.write(new_content); modified_files += 1
UiWrite ==
    /\ pc = "uiwrite"
    /\ \/ /\ target' = [target EXCEPT !.content = WriteText(content)]
          /\ Succeed
          /\ UNCHANGED <<backups, tmp, original_mode, content, tmp_path, backup_path>>
       \/ Raise

\* The call has returned; a temporary file still on disk stays there.
Return ==
    /\ pc = "done"
    /\ pc' = "idle"
    /\ leaked' = leaked + (IF tmp.exists THEN 1 ELSE 0)
    /\ tmp' = NoTmp
    /\ variant' = "none"
    /\ rules' = <<>>
    /\ original_mode' = "none"
    /\ content' = <<>>
    /\ tmp_path' = FALSE
    /\ backup_path' = NoName
    /\ result' = "none"
    /\ failedAt' = "none"
    /\ pre' = [target |-> NoFile, backups |-> EmptyDir]
    /\ UNCHANGED <<target, backups, now, calls, orig, mutated, OutsideM>>

\* A second passes between two calls.
Tick ==
    /\ pc = "idle"
    /\ now < MaxTime
    /\ now' = now + 1
    /\ UNCHANGED <<target, backups, tmp, leaked, calls, pc, variant, rules,
                   original_mode, content, tmp_path, backup_path, result,
                   failedAt, pre, orig, mutated, OutsideM>>

MInit ==
    /\ \E bs \in SeqsUpTo(Byte, MaxLen), m \in {"rw", "ro"} :
          /\ target = [exists |-> TRUE, content |-> bs, mode |-> m]
          /\ orig = bs
    /\ backups = EmptyDir
    /\ tmp = NoTmp
    /\ leaked = 0
    /\ now = 0
    /\ calls = 0
    /\ pc = "idle"
    /\ variant = "none"
    /\ rules = <<>>
    /\ original_mode = "none"
    /\ content = <<>>
    /\ tmp_path = FALSE
    /\ backup_path = NoName
    /\ result = "none"
    /\ failedAt = "none"
    /\ pre = [target |-> NoFile, backups |-> EmptyDir]
    /\ mutated = FALSE

MNext ==
    \/ \E v \in Variants : \E rs \in TablesOf(v) : Start(v, rs)
    \/ Check
    \/ PatchCheck
    \/ PatchBackup
    \/ Stat
    \/ Backup
    \/ MkTemp
    \/ Read
    \/ Match
    \/ Transform
    \/ WriteTmp
    \/ Remove
    \/ Move
    \/ Copy
    \/ Chmod
    \/ Truncate
    \/ UiWrite
    \/ Return
    \/ Tick

(***************************************************************************)
(* BackupManager. A node is a file or a directory tree: [kind, data], data *)
(* the set of <<relative name, content>> pairs below it (a file is the one *)
(* pair <<"", content>>). BackupManager copies bytes and never reads them, *)
(* so a content is a number.                                               *)
(***************************************************************************)
Paths == {"a/f", "b/f"}

\* os.path.basename(source_path)
Basename(p) == "f"

NoNode == [kind |-> "none", data |-> {}]
FileNode(c) == [kind |-> "file", data |-> {<<"", c>>}]
DirNode(d) == [kind |-> "dir", data |-> d]

FileNodes == {FileNode(c) : c \in 0..MaxContent}
DirNodes == {DirNode(d) : d \in SUBSET {<<"x", 0>>}}
NodesOfKind(k) == IF k = "file" THEN FileNodes ELSE DirNodes

ContentOf(node) == CHOOSE c \in 0..MaxContent : <<"", c>> \in node.data

\* The backup types callers pass; restore_backup itself passes "pre_restore".
BackupTypes == {"workbench", "storage"}

NoId == <<>>
NoManifest == [status |-> "none", backup_type |-> "", source_path |-> "",
               timestamp |-> 0, created_date |-> 0]
EmptyFolder == [copy |-> NoNode, manifest |-> NoManifest]
EmptyStore == [i \in {} |-> EmptyFolder]

PutFolder(st, id, folder) ==
    [i \in DOMAIN st \cup {id} |-> IF i = id THEN folder ELSE st[i]]

\* backup_id = f"{backup_type}_{source_name}_{timestamp}"
BackupId(type, src, t) == <<type, Basename(src), t>>

\* shutil.copy2(source_path, backup_file_path) with a file as the source: it
\* overwrites a file found at backup_file_path, and copies into a directory
\* found there.
CopyFileOnto(old, node) ==
    IF old.kind = "dir"
    THEN DirNode({e \in old.data : e[1] # "f"} \cup {<<"f", ContentOf(node)>>})
    ELSE node

\* BackupManager.create_backup, as [store, ret]: the backup root afterwards
\* and the id returned (NoId for None). fault names the step that raises:
\* "copy" (copy2 / copytree), "manifest" (the open or the json.dump of the
\* metadata file, which leaves a file that does not parse), or "none".
CreateBackup(fs, st, src, type, t, fault) ==
    IF fs[src].kind = "none" THEN [store |-> st, ret |-> NoId]
    ELSE
      LET id == BackupId(type, src, t)
          old == IF id \in DOMAIN st THEN st[id] ELSE EmptyFolder
      IN IF \/ fault = "copy"
            \/ fs[src].kind = "dir" /\ old.copy.kind # "none"
         THEN [store |-> PutFolder(st, id, old), ret |-> NoId]
         ELSE
           LET copy == IF fs[src].kind = "file"
                       THEN CopyFileOnto(old.copy, fs[src])
                       ELSE fs[src]
           IN IF fault = "manifest"
              THEN [store |-> PutFolder(st, id,
                                 [copy |-> copy,
                                  manifest |-> [NoManifest EXCEPT !.status = "corrupt"]]),
                    ret |-> NoId]
              ELSE [store |-> PutFolder(st, id,
                                 [copy |-> copy,
                                  manifest |-> [status |-> "ok",
                                                backup_type |-> type,
                                                source_path |-> src,
                                                timestamp |-> t,
                                                created_date |-> t]]),
                    ret |-> id]

\* restore_backup: if not os.path.exists(backup_file_path): return False
BackupContentExistsUnchecked(folder) == TRUE
BackupContentExists(folder) == folder.copy.kind # "none"

\* BackupManager.restore_backup, as [files, store, ret]. fault names the step
\* that raises: "pre" (the copy inside the pre_restore create_backup, which
\* create_backup swallows), "copy" (copy2 / copytree onto the source), or
\* "none".
RestoreBackup(fs, st, id, t, fault) ==
    LET refuse == [files |-> fs, store |-> st, ret |-> FALSE]
    IN IF id \notin DOMAIN st THEN refuse
       ELSE IF st[id].manifest.status # "ok" THEN refuse
       ELSE IF ~BackupContentExists(st[id]) THEN refuse
       ELSE
         LET src == st[id].manifest.source_path
             st1 == IF fs[src].kind # "none"
                    THEN CreateBackup(fs, st, src, "pre_restore", t,
                                      IF fault = "pre" THEN "copy" ELSE "none").store
                    ELSE st
             copy == st1[id].copy
         IN IF copy.kind = "none"
            THEN [files |-> fs, store |-> st1, ret |-> FALSE]
            ELSE IF copy.kind = "file"
            THEN IF fault = "copy"
                 THEN [files |-> fs, store |-> st1, ret |-> FALSE]
                 ELSE [files |-> [fs EXCEPT ![src] = CopyFileOnto(fs[src], copy)],
                       store |-> st1, ret |-> TRUE]
            ELSE IF fs[src].kind = "file"
                 THEN [files |-> fs, store |-> st1, ret |-> FALSE]
                 ELSE IF fault = "copy"
                      THEN [files |-> [fs EXCEPT ![src] = NoNode],
                            store |-> st1, ret |-> FALSE]
                      ELSE [files |-> [fs EXCEPT ![src] = copy],
                            store |-> st1, ret |-> TRUE]

NoCall == [op |-> "none", id |-> NoId, src |-> "", ret |-> NoId, ok |-> FALSE,
           files |-> [p \in Paths |-> NoNode], store |-> EmptyStore]

Faulty(fault) == IF fault = "none" THEN 0 ELSE 1

\* A call of create_backup(source_path, backup_type).
DoCreate(src, type, fault) ==
    /\ ops < MaxOps
    /\ faults + Faulty(fault) <= MaxFaults
    /\ LET r == CreateBackup(files, store, src, type, clock, fault)
       IN /\ store' = r.store
          /\ last' = [op |-> "create", id |-> BackupId(type, src, clock), src |-> src,
                      ret |-> r.ret, ok |-> r.ret # NoId,
                      files |-> files, store |-> store]
          /\ issued' = IF r.ret # NoId THEN issued \cup {r.ret} ELSE issued
          /\ made' = IF r.ret # NoId THEN made \cup {<<r.ret, src, files[src]>>} ELSE made
    /\ ops' = ops + 1
    /\ faults' = faults + Faulty(fault)
    /\ UNCHANGED <<files, clock, edits, OutsideB>>

\* A call of restore_backup(backup_id).
DoRestore(id, fault) ==
    /\ ops < MaxOps
    /\ faults + Faulty(fault) <= MaxFaults
    /\ LET r == RestoreBackup(files, store, id, clock, fault)
       IN /\ files' = r.files
          /\ store' = r.store
          /\ last' = [op |-> "restore", id |-> id,
                      src |-> store[id].manifest.source_path,
                      ret |-> NoId, ok |-> r.ret,
                      files |-> files, store |-> store]
    /\ ops' = ops + 1
    /\ faults' = faults + Faulty(fault)
    /\ UNCHANGED <<clock, edits, issued, made, OutsideB>>

\* A call of list_backups: it opens the manifests for reading and builds its
\* result in memory (RootSpec below models what it returns).
DoList ==
    /\ ops < MaxOps
    /\ last' = [NoCall EXCEPT !.op = "list", !.files = files, !.store = store]
    /\ ops' = ops + 1
    /\ UNCHANGED <<files, store, clock, edits, faults, issued, made, OutsideB>>

\* The patched application or the user rewrites or deletes a source.
EditSource(p, node) ==
    /\ edits < MaxEdits
    /\ files[p].kind # "none"
    /\ node \in NodesOfKind(files[p].kind) \cup {NoNode}
    /\ node # files[p]
    /\ files' = [files EXCEPT ![p] = node]
    /\ edits' = edits + 1
    /\ last' = NoCall
    /\ UNCHANGED <<store, clock, ops, faults, issued, made, OutsideB>>

\* The stored copy of a backup is deleted from the backup root.
LoseCopy(id) ==
    /\ edits < MaxEdits
    /\ store[id].copy.kind # "none"
    /\ store' = [store EXCEPT ![id].copy = NoNode]
    /\ edits' = edits + 1
    /\ last' = NoCall
    /\ UNCHANGED <<files, clock, ops, faults, issued, made, OutsideB>>

BTick ==
    /\ clock < MaxTime
    /\ clock' = clock + 1
    /\ last' = NoCall
    /\ UNCHANGED <<files, store, ops, edits, faults, issued, made, OutsideB>>

BInit ==
    /\ files \in [Paths -> FileNodes \cup DirNodes]
    /\ store = EmptyStore
    /\ clock = 0
    /\ ops = 0
    /\ edits = 0
    /\ faults = 0
    /\ last = NoCall
    /\ issued = {}
    /\ made = {}

BNext ==
    \/ \E p \in Paths, ty \in BackupTypes, f \in {"none", "copy", "manifest"} :
          DoCreate(p, ty, f)
    \/ \E id \in DOMAIN store, f \in {"none", "pre", "copy"} : DoRestore(id, f)
    \/ DoList
    \/ \E p \in Paths : \E node \in FileNodes \cup DirNodes \cup {NoNode} :
          EditSource(p, node)
    \/ \E id \in DOMAIN store : LoseCopy(id)
    \/ BTick

\* The mutation routines alone, BackupManager at rest.
BIdle ==
    /\ files = [p \in Paths |-> NoNode]
    /\ store = EmptyStore
    /\ clock = 0
    /\ ops = 0
    /\ edits = 0
    /\ faults = 0
    /\ last = NoCall
    /\ issued = {}
    /\ made = {}

\* BackupManager alone, no mutation running.
MIdle ==
    /\ target = NoFile
    /\ orig = <<>>
    /\ backups = EmptyDir
    /\ tmp = NoTmp
    /\ leaked = 0
    /\ now = 0
    /\ calls = 0
    /\ pc = "idle"
    /\ variant = "none"
    /\ rules = <<>>
    /\ original_mode = "none"
    /\ content = <<>>
    /\ tmp_path = FALSE
    /\ backup_path = NoName
    /\ result = "none"
    /\ failedAt = "none"
    /\ pre = [target |-> NoFile, backups |-> EmptyDir]
    /\ mutated = FALSE

(***************************************************************************)
(* BackupManager.list_backups and cleanup_old_backups, and                 *)
(* ProUIFeaturesBackupManager.cleanup_old_backups, over a backup root with *)
(* any content: folders whose manifest is missing, does not parse, or      *)
(* parses with fields of any shape.                                        *)
(***************************************************************************)
RootIds == {"d1", "d2", "d3"}

Dates == 0..MaxDay

\* A manifest's "timestamp": a "%Y%m%d_%H%M%S" string (val is its day; such
\* strings compare as their dates do), absent or empty, or JSON null.
TsStr(d) == [kind |-> "str", val |-> d]
TsAbsent == [kind |-> "absent", val |-> 0]
TsNull == [kind |-> "null", val |-> 0]

\* A manifest's "created_date": a naive ISO date as create_backup writes it,
\* an ISO date with "Z" or a UTC offset, absent or empty, or a value that
\* fromisoformat rejects.
Naive(d) == [kind |-> "naive", val |-> d]
Aware(d) == [kind |-> "aware", val |-> d]
CdAbsent == [kind |-> "absent", val |-> 0]
CdBad == [kind |-> "bad", val |-> 0]

\* The two date fields of a manifest: written together by create_backup, or
\* both missing, or damaged.
DateFields ==
    {[ts |-> TsStr(d), created |-> Naive(d)] : d \in Dates}
    \cup {[ts |-> TsAbsent, created |-> CdAbsent],
          [ts |-> TsNull, created |-> CdBad],
          [ts |-> TsStr(0), created |-> Aware(0)]}

\* A folder of the backup root. status "none": no backup_metadata.json;
\* "corrupt": json.load raises or yields something that is not an object.
RootFolder(status, type, df) ==
    [status |-> status, backup_type |-> type, ts |-> df.ts, created |-> df.created]

RootFolders ==
    {RootFolder(s, "", [ts |-> TsAbsent, created |-> CdAbsent]) : s \in {"none", "corrupt"}}
    \cup {RootFolder("ok", ty, df) : ty \in BackupTypes, df \in DateFields}

\* os.listdir(self.backup_base_dir): the folder names in some order.
ListDirs(rt) ==
    {s \in [1..Cardinality(DOMAIN rt) -> DOMAIN rt] :
        \A i, j \in DOMAIN s : i # j => s[i] # s[j]}

\* key=lambda x: x.get('timestamp', ''): the rank of the key among strings.
SortKey(f) == IF f.ts.kind = "str" THEN f.ts.val + 1 ELSE 0

\* Comparing None with anything raises TypeError.
SortRaises(rt, ids) ==
    /\ Len(ids) >= 2
    /\ \E i \in DOMAIN ids : rt[ids[i]].ts.kind = "null"

InsertDesc(rt, sorted, id) ==
    LET n == Cardinality({i \in DOMAIN sorted :
                             SortKey(rt[sorted[i]]) >= SortKey(rt[id])})
    IN SubSeq(sorted, 1, n) \o <<id>> \o SubSeq(sorted, n + 1, Len(sorted))

\* backups.sort(key=..., reverse=True): stable, entries with equal keys keep
\* the order in which they were appended.
RECURSIVE SortDesc(_, _)
SortDesc(rt, ids) ==
    IF ids = <<>> THEN <<>>
    ELSE InsertDesc(rt, SortDesc(rt, SubSeq(ids, 1, Len(ids) - 1)), ids[Len(ids)])

NoLimit == <<>>

\* if limit: backups = backups[:limit]
ApplyLimit(ids, limit) ==
    IF limit = NoLimit \/ limit[1] = 0 THEN ids
    ELSE SubSeq(ids, 1, IF limit[1] < Len(ids) THEN limit[1] ELSE Len(ids))

\* BackupManager.list_backups(backup_type, limit), as the sequence of the
\* folders whose manifests it returns. backup_type "" stands for None.
ListBackups(rt, order, backup_type, limit) ==
    LET listed == SelectSeq(order, LAMBDA id :
                      /\ rt[id].status = "ok"
                      /\ backup_type # "" => rt[id].backup_type = backup_type)
    IN IF SortRaises(rt, listed) THEN <<>>
       ELSE ApplyLimit(SortDesc(rt, listed), limit)

\* if created_date < cutoff_date, with cutoff_date = now - timedelta(days=n):
\* an aware date against the naive cutoff raises TypeError, which the loop
\* swallows like a manifest that does not parse. (ExpiredOrUnreadable would
\* also sweep the folders whose manifest cannot be read.)
ExpiredOrUnreadable(f, day, n) ==
    \/ f.status # "ok"
    \/ f.created.kind = "naive" /\ f.created.val < day - n

Expired(f, day, n) ==
    f.status = "ok" /\ f.created.kind = "naive" /\ f.created.val < day - n

\* What is left of a folder whose shutil.rmtree raised: rmtree stops at the
\* first entry it cannot delete, before or after it deleted the manifest.
AfterFailedRmtree(f, outcome) ==
    IF outcome = "gutted" THEN [f EXCEPT !.status = "none"] ELSE f

\* BackupManager.cleanup_old_backups(retention_days), as [root, ret]. failing
\* names the folder whose rmtree raises ("" for none).
CleanupOldBackups(rt, day, n, failing, outcome) ==
    LET removed == {id \in DOMAIN rt : Expired(rt[id], day, n) /\ id # failing}
    IN [root |-> [id \in DOMAIN rt \ removed |->
                     IF id = failing THEN AfterFailedRmtree(rt[id], outcome)
                     ELSE rt[id]],
        ret |-> Cardinality(removed)]

\* ProUIFeaturesBackupManager.list_backups sorts on x["timestamp"], where a
\* manifest that does not parse or lacks the field counts as "unknown"; a
\* null among two or more entries makes the sort raise and the list empty.
ProListRaises(rt) ==
    /\ Cardinality({id \in DOMAIN rt : rt[id].status # "none"}) >= 2
    /\ \E id \in DOMAIN rt : rt[id].status = "ok" /\ rt[id].ts.kind = "null"

\* backup_date = datetime.strptime(backup["timestamp"], "%Y%m%d_%H%M%S");
\* if backup_date < cutoff_date
ProExpired(f, day, n) ==
    f.status = "ok" /\ f.ts.kind = "str" /\ f.ts.val < day - n

\* ProUIFeaturesBackupManager.cleanup_old_backups(retention_days), as [root, ret].
ProCleanupOldBackups(rt, day, n, failing, outcome) ==
    LET removed == IF ProListRaises(rt) THEN {}
                   ELSE {id \in DOMAIN rt : ProExpired(rt[id], day, n) /\ id # failing}
    IN [root |-> [id \in DOMAIN rt \ removed |->
                     IF id = failing THEN AfterFailedRmtree(rt[id], outcome)
                     ELSE rt[id]],
        ret |-> Cardinality(removed)]

NoRootCall == [op |-> "none", order |-> <<>>, backup_type |-> "", limit |-> NoLimit,
               days |-> 0, failing |-> "", root |-> <<>>, today |-> 0,
               out |-> <<>>, ret |-> 0]

Limits == {NoLimit} \cup {<<n>> : n \in 0..2}

\* A call of list_backups(backup_type, limit).
DoListBackups(order, backup_type, limit) ==
    /\ rops < MaxRootOps
    /\ order \in ListDirs(root)
    /\ rlast' = [NoRootCall EXCEPT !.op = "list", !.order = order,
                                   !.backup_type = backup_type, !.limit = limit,
                                   !.root = root, !.today = today,
                                   !.out = ListBackups(root, order, backup_type, limit)]
    /\ rops' = rops + 1
    /\ UNCHANGED <<root, today, OutsideR>>

\* A call of BackupManager.cleanup_old_backups(n).
DoCleanup(n, failing, outcome) ==
    /\ rops < MaxRootOps
    /\ failing # "" => failing \in DOMAIN root /\ Expired(root[failing], today, n)
    /\ LET r == CleanupOldBackups(root, today, n, failing, outcome)
       IN /\ root' = r.root
          /\ rlast' = [NoRootCall EXCEPT !.op = "cleanup", !.days = n,
                                         !.failing = failing, !.root = root,
                                         !.today = today, !.ret = r.ret]
    /\ rops' = rops + 1
    /\ UNCHANGED <<today, OutsideR>>

\* A call of ProUIFeaturesBackupManager.cleanup_old_backups(n).
DoProCleanup(n, failing, outcome) ==
    /\ rops < MaxRootOps
    /\ failing # "" =>
          /\ failing \in DOMAIN root
          /\ ProExpired(root[failing], today, n)
          /\ ~ProListRaises(root)
    /\ LET r == ProCleanupOldBackups(root, today, n, failing, outcome)
       IN /\ root' = r.root
          /\ rlast' = [NoRootCall EXCEPT !.op = "procleanup", !.days = n,
                                         !.failing = failing, !.root = root,
                                         !.today = today, !.ret = r.ret]
    /\ rops' = rops + 1
    /\ UNCHANGED <<today, OutsideR>>

RInit ==
    /\ root \in [RootIds -> RootFolders]
    /\ today = MaxDay
    /\ rops = 0
    /\ rlast = NoRootCall

RNext ==
    \/ \E order \in ListDirs(root), ty \in {""} \cup BackupTypes, limit \in Limits :
          DoListBackups(order, ty, limit)
    \/ \E n \in Dates, failing \in {""} \cup RootIds, outcome \in {"intact", "gutted"} :
          DoCleanup(n, failing, outcome)
    \/ \E n \in Dates, failing \in {""} \cup RootIds, outcome \in {"intact", "gutted"} :
          DoProCleanup(n, failing, outcome)

\* The other components alone, the backup root not in use.
RIdle ==
    /\ root = <<>>
    /\ today = 0
    /\ rops = 0
    /\ rlast = NoRootCall

(***************************************************************************)
(* RegistryManager (registry_manager.py) and the paths that lead to its    *)
(* writes: CursorToolsApp.run, DeviceIDModifier, and                       *)
(* MachineIDResetter.update_system_ids.                                    *)
(***************************************************************************)

\* config.registry_paths, in dict order.
RegPaths == <<"cryptography", "hardware_profiles", "sqm_client">>
RegPathSet == {RegPaths[i] : i \in DOMAIN RegPaths}

\* SYSTEM\CurrentControlSet\Control, the key check_admin_privileges opens.
ControlKey == "control"

\* config.target_values
TargetValues(p) ==
    CASE p = "cryptography" -> {"MachineGuid"}
      [] p = "hardware_profiles" -> {"HwProfileGuid"}
      [] p = "sqm_client" -> {"MachineId"}
      [] OTHER -> {}

\* Every value under a key: the configured ones and one that is not.
AllValueNames(p) == TargetValues(p) \cup {"Other"}

\* The sentinel strings of read_registry_values.
NotFound == "Not found"
QueryError == "Error: ..."
PathNotFound == "Registry path not found"

AccessDenied == "Access denied - Administrator privileges required"

\* A key of the registry: "ok", "missing", "readonly" (its ACL refuses
\* KEY_WRITE even to an administrator) or "denied" (its ACL refuses KEY_READ
\* too). A value: a string, "none" (no such value) or "broken" (QueryValueEx
\* raises something other than FileNotFoundError).
RegKey(k, v) ==
    [key |-> k, vals |-> [n \in {"Target", "Other"} |-> IF n = "Target" THEN v ELSE "keep"]]

\* The names read_registry_values queries under a key:
\* target_values.get(path, []).
TargetKeysEveryValue(p) == AllValueNames(p)
TargetKeys(p) == TargetValues(p)

\* winreg.OpenKey(HKEY_LOCAL_MACHINE, path, 0, winreg.KEY_READ): the
\* exception it raises, or "none".
OpenForRead(rg, p) ==
    CASE rg[p].key = "missing" -> "FileNotFoundError"
      [] rg[p].key = "denied" -> "PermissionError"
      [] OTHER -> "none"

\* The name under which a key's record holds a value.
Slot(p, n) == IF n \in TargetValues(p) THEN "Target" ELSE "Other"

\* value_data, _ = winreg.QueryValueEx(key, target_key), with its handlers.
QueryValue(rg, p, n) ==
    LET v == rg[p].vals[Slot(p, n)]
    IN IF v = "none" THEN NotFound
       ELSE IF v = "broken" THEN QueryError
       ELSE v

\* RegistryManager.read_registry_values
ReadRegistryValues(rg) ==
    [p \in RegPathSet |->
        CASE OpenForRead(rg, p) = "FileNotFoundError" -> [n \in {"Error"} |-> PathNotFound]
          [] OpenForRead(rg, p) = "PermissionError" -> [n \in {"Error"} |-> AccessDenied]
          [] OTHER -> [n \in TargetKeys(p) |-> QueryValue(rg, p, n)]]

\* winreg.OpenKey(HKEY_LOCAL_MACHINE, path, 0, winreg.KEY_WRITE)
CanOpenForWrite(rg, p, elev) == elev /\ rg[p].key = "ok"

\* RegistryManager.check_admin_privileges: the key opens for read and write.
CheckAdminPrivileges(rg, elev) == CanOpenForWrite(rg, ControlKey, elev)

\* winreg.SetValueEx(key, value_name, 0, winreg.REG_SZ, value_data)
SetValues(rg, p, named) ==
    [rg EXCEPT ![p].vals = [s \in DOMAIN @ |->
        IF \E n \in DOMAIN named : Slot(p, n) = s
        THEN named[CHOOSE n \in DOMAIN named : Slot(p, n) = s]
        ELSE @[s]]]

\* RegistryManager.restore_backup from path i on, as [reg, ok, wrote]: a path
\* saved as {"Error": ...} is skipped, every saved string is written back
\* (the sentinels included), and the first key that does not open raises.
RECURSIVE RestoreFrom(_, _, _, _)
RestoreFrom(rg, snap, elev, i) ==
    IF i > Len(RegPaths) THEN [reg |-> rg, ok |-> TRUE]
    ELSE LET p == RegPaths[i]
         IN IF "Error" \in DOMAIN snap[p] THEN RestoreFrom(rg, snap, elev, i + 1)
            ELSE IF ~CanOpenForWrite(rg, p, elev) THEN [reg |-> rg, ok |-> FALSE]
            ELSE RestoreFrom(SetValues(rg, p, snap[p]), snap, elev, i + 1)

RestoreRegistry(rg, snap, elev) == RestoreFrom(rg, snap, elev, 1)

\* generate_new_device_ids: a fresh uuid4 for each target value.
NewIds(p) == [n \in TargetValues(p) |-> "new"]

\* MachineIDResetter.update_system_ids: MachineGuid, then MachineId (whose
\* key is created when missing); the first failure ends it.
UpdateSystemIds(rg, elev) ==
    IF ~CanOpenForWrite(rg, "cryptography", elev) THEN rg
    ELSE LET r1 == SetValues(rg, "cryptography", NewIds("cryptography"))
         IN IF ~elev \/ r1["sqm_client"].key \in {"readonly", "denied"} THEN r1
            ELSE SetValues([r1 EXCEPT !["sqm_client"].key = "ok"],
                           "sqm_client", NewIds("sqm_client"))

\* The modification loop of modify_device_ids from path i on, as
\* [reg, failed, written]: the first key that does not open for writing ends
\* the loop.
RECURSIVE ModifyFrom(_, _, _, _)
ModifyFrom(rg, elev, i, done) ==
    IF i > Len(RegPaths) THEN [reg |-> rg, failed |-> "", written |-> done]
    ELSE LET p == RegPaths[i]
         IN IF ~CanOpenForWrite(rg, p, elev)
            THEN [reg |-> rg, failed |-> p, written |-> done]
            ELSE ModifyFrom(SetValues(rg, p, NewIds(p)), elev, i + 1, Append(done, p))

\* What modify_device_ids lets its caller know of the restore it attempted:
\* the call sits in try/except-pass and its return value is dropped.
ReportedRestore(ok) == "nothing"

\* RegistryManager.modify_device_ids, as [reg, saved, raised, ...]. saveOk
\* is whether create_backup could write its file.
ModifyDeviceIds(rg, elev, saveOk) ==
    LET before == ReadRegistryValues(rg)
        m == ModifyFrom(rg, elev, 1, <<>>)
        r == RestoreRegistry(m.reg, before, elev)
    IN IF ~saveOk
       THEN [reg |-> rg, backup |-> <<>>, raised |-> TRUE, failed |-> "",
             written |-> <<>>, attempted |-> FALSE, restored |-> FALSE,
             restoredFrom |-> <<>>, restoreOk |-> FALSE, reported |-> "nothing",
             before |-> <<before>>]
       ELSE IF m.failed = ""
       THEN [reg |-> m.reg, backup |-> <<before>>, raised |-> FALSE, failed |-> "",
             written |-> m.written, attempted |-> TRUE, restored |-> FALSE,
             restoredFrom |-> <<>>, restoreOk |-> FALSE, reported |-> "nothing",
             before |-> <<before>>]
       ELSE [reg |-> r.reg, backup |-> <<before>>, raised |-> TRUE, failed |-> m.failed,
             written |-> m.written, attempted |-> TRUE, restored |-> TRUE,
             restoredFrom |-> <<before>>, restoreOk |-> r.ok,
             reported |-> ReportedRestore(r.ok), before |-> <<before>>]

\* `if not self.registry_manager.check_admin_privileges(): ... return`
MayProceedUnchecked(checked) == TRUE
MayProceed(checked) == checked

\* The operation last run from the menu and what it did.
NoOperation ==
    [op |-> "none", checked |-> "none", attempted |-> FALSE, raised |-> FALSE,
     failed |-> "", written |-> <<>>, backup |-> <<>>, before |-> <<>>,
     restored |-> FALSE, restoredFrom |-> <<>>, restoreOk |-> FALSE,
     reported |-> "nothing", regBefore |-> <<>>]

\* CursorToolsApp.run up to the menu: is_admin(), else run_as_admin() and
\* exit; launched is whether the elevated process came up.
Run(launched) ==
    /\ gpc = "start"
    /\ IF elevated
       THEN gpc' = "menu" /\ elevated' = elevated
       ELSE /\ elevated' = launched
            /\ gpc' = IF launched THEN "start" ELSE "exited"
    /\ UNCHANGED <<reg, saved, gops, glog>>
    /\ UNCHANGED OutsideG

\* DeviceIDModifier.change_device_id
ChangeDeviceId(confirm, saveOk) ==
    /\ gpc = "menu"
    /\ gops < MaxRegOps
    /\ gops' = gops + 1
    /\ LET checked == CheckAdminPrivileges(reg, elevated)
           m == ModifyDeviceIds(reg, elevated, saveOk)
           entry == [NoOperation EXCEPT !.op = "change", !.regBefore = <<reg>>,
                        !.checked = IF checked THEN "passed" ELSE "failed"]
       IN IF ~MayProceed(checked) \/ ~confirm
          THEN glog' = entry /\ UNCHANGED <<reg, saved>>
          ELSE /\ reg' = m.reg
               /\ saved' = saved \o m.backup
               /\ glog' = [entry EXCEPT !.attempted = m.attempted, !.raised = m.raised,
                              !.failed = m.failed, !.written = m.written,
                              !.backup = m.backup, !.before = m.before,
                              !.restored = m.restored, !.restoredFrom = m.restoredFrom,
                              !.restoreOk = m.restoreOk, !.reported = m.reported]
    /\ UNCHANGED <<elevated, gpc>>
    /\ UNCHANGED OutsideG

\* DeviceIDModifier.restore_backup: choice 0 is 'c'.
RestoreDeviceId(choice, confirm) ==
    /\ gpc = "menu"
    /\ gops < MaxRegOps
    /\ gops' = gops + 1
    /\ choice \in 0..Len(saved)
    /\ LET checked == CheckAdminPrivileges(reg, elevated)
           entry == [NoOperation EXCEPT !.op = "restore", !.regBefore = <<reg>>,
                        !.checked = IF checked THEN "passed" ELSE "failed"]
       IN IF ~MayProceed(checked) \/ saved = <<>> \/ choice = 0 \/ ~confirm
          THEN glog' = entry /\ reg' = reg
          ELSE LET r == RestoreRegistry(reg, saved[choice], elevated)
               IN /\ reg' = r.reg
                  /\ glog' = [entry EXCEPT !.attempted = TRUE, !.raised = ~r.ok,
                                 !.restored = TRUE, !.restoredFrom = <<saved[choice]>>,
                                 !.restoreOk = r.ok,
                                 !.before = <<ReadRegistryValues(reg)>>]
    /\ UNCHANGED <<elevated, gpc, saved>>
    /\ UNCHANGED OutsideG

\* MachineIDResetter.reset_machine_ids, its registry part.
ResetSystemIds ==
    /\ gpc = "menu"
    /\ gops < MaxRegOps
    /\ gops' = gops + 1
    /\ reg' = UpdateSystemIds(reg, elevated)
    /\ glog' = [NoOperation EXCEPT !.op = "reset", !.attempted = TRUE, !.regBefore = <<reg>>]
    /\ UNCHANGED <<elevated, gpc, saved>>
    /\ UNCHANGED OutsideG

\* The exit choice of the main menu ends the loop.
ExitApp ==
    /\ gpc = "menu"
    /\ gpc' = "exited"
    /\ UNCHANGED <<reg, elevated, saved, gops, glog>>
    /\ UNCHANGED OutsideG

KeyStates == {"ok", "missing", "readonly", "denied"}
ValueStates == {"old", "none", "broken"}

\* The keys a machine can have: a missing key holds no value.
RegKeys ==
    {RegKey(k, v) : k \in KeyStates \ {"missing"}, v \in ValueStates}
        \cup {RegKey("missing", "none")}

GInit ==
    /\ reg \in [RegPathSet \cup {ControlKey} -> RegKeys]
    /\ reg[ControlKey].vals["Target"] = "none"
    /\ reg[ControlKey].key \in {"ok", "readonly"}
    /\ elevated \in BOOLEAN
    /\ gpc = "start"
    /\ saved = <<>>
    /\ gops = 0
    /\ glog = NoOperation

GNext ==
    \/ \E launched \in BOOLEAN : Run(launched)
    \/ \E confirm \in BOOLEAN, saveOk \in BOOLEAN : ChangeDeviceId(confirm, saveOk)
    \/ \E choice \in 0..MaxRegOps, confirm \in BOOLEAN : RestoreDeviceId(choice, confirm)
    \/ ResetSystemIds
    \/ ExitApp

GIdle ==
    /\ reg = [p \in RegPathSet \cup {ControlKey} |-> RegKey("ok", "none")]
    /\ elevated = FALSE
    /\ gpc = "exited"
    /\ saved = <<>>
    /\ gops = 0
    /\ glog = NoOperation

(***************************************************************************)
(* Version comparison (version_manager.py, auto_update_manager.py). A      *)
(* version string is a sequence of characters.                             *)
(***************************************************************************)

\* The characters version strings are made of here: digits, the separator,
\* a letter, a sign and white space.
VersionChars == {"0", "1", ".", "x", "-", " "}

\* The value of a decimal digit, -1 for any other character.
DigitValue(c) ==
    CASE c = "0" -> 0 [] c = "1" -> 1 [] c = "2" -> 2 [] c = "3" -> 3
      [] c = "4" -> 4 [] c = "5" -> 5 [] c = "6" -> 6 [] c = "7" -> 7
      [] c = "8" -> 8 [] c = "9" -> 9 [] OTHER -> -1

IsSpace(c) == c \in {" ", "\t", "\n", "\r"}

\* str.split("."): the segments between the dots; the last may be empty.
RECURSIVE SplitDots(_, _)
SplitDots(s, seg) ==
    IF s = <<>> THEN <<seg>>
    ELSE IF Head(s) = "." THEN <<seg>> \o SplitDots(Tail(s), <<>>)
    ELSE SplitDots(Tail(s), Append(seg, Head(s)))

\* The white space int() ignores on both sides of its argument.
RECURSIVE StripLeft(_)
StripLeft(s) == IF s # <<>> /\ IsSpace(Head(s)) THEN StripLeft(Tail(s)) ELSE s

RECURSIVE StripRight(_)
StripRight(s) ==
    IF s # <<>> /\ IsSpace(s[Len(s)]) THEN StripRight(SubSeq(s, 1, Len(s) - 1)) ELSE s

\* The digits of an int() literal: digits, single underscores between them.
RECURSIVE DigitsValue(_, _, _)
DigitsValue(s, acc, afterDigit) ==
    IF s = <<>> THEN (IF afterDigit THEN acc ELSE -1)
    ELSE IF DigitValue(Head(s)) >= 0
         THEN DigitsValue(Tail(s), 10 * acc + DigitValue(Head(s)), TRUE)
    ELSE IF Head(s) = "_" /\ afterDigit THEN DigitsValue(Tail(s), acc, FALSE)
    ELSE -1

\* int(segment): [ok, val]; not ok is ValueError.
ParseInt(seg) ==
    LET t == StripRight(StripLeft(seg))
        signed == t # <<>> /\ Head(t) \in {"+", "-"}
        digits == IF signed THEN Tail(t) ELSE t
        v == DigitsValue(digits, 0, FALSE)
    IN IF v < 0 THEN [ok |-> FALSE, val |-> 0]
       ELSE [ok |-> TRUE, val |-> IF signed /\ Head(t) = "-" THEN 0 - v ELSE v]

\* None, passed where a string is expected.
None == <<"None">>

\* tuple(map(int, version.split("."))): [exc, parts].
VersionParts(version) ==
    IF version = None THEN [exc |-> "AttributeError", parts |-> <<>>]
    ELSE LET segs == SplitDots(version, <<>>)
         IN IF \E i \in DOMAIN segs : ~ParseInt(segs[i]).ok
            THEN [exc |-> "ValueError", parts |-> <<>>]
            ELSE [exc |-> "none", parts |-> [i \in DOMAIN segs |-> ParseInt(segs[i]).val]]

\* Python's tuple comparison x < y: the first differing element decides, and
\* a proper prefix is smaller.
RECURSIVE TupleLess(_, _)
TupleLess(x, y) ==
    IF y = <<>> THEN FALSE
    ELSE IF x = <<>> THEN TRUE
    ELSE IF Head(x) # Head(y) THEN Head(x) < Head(y)
    ELSE TupleLess(Tail(x), Tail(y))

\* x > y
TupleNotLess(x, y) == ~TupleLess(x, y)
TupleGreater(x, y) == TupleLess(y, x)

\* except (ValueError, AttributeError)
Caught == {"ValueError", "AttributeError"}

\* The exception the parsing of the two arguments raises, or "none":
\* version1 is parsed first.
ParseException(v1, v2) ==
    IF VersionParts(v1).exc # "none" THEN VersionParts(v1).exc ELSE VersionParts(v2).exc

\* CursorToolsVersionManager.compare_versions: [raised, ret].
CompareVersions(version1, version2) ==
    LET exc == ParseException(version1, version2)
        v1_parts == VersionParts(version1).parts
        v2_parts == VersionParts(version2).parts
    IN IF exc # "none"
       THEN [raised |-> exc \notin Caught, ret |-> 0]
       ELSE [raised |-> FALSE,
             ret |-> IF TupleLess(v1_parts, v2_parts) THEN -1
                     ELSE IF TupleGreater(v1_parts, v2_parts) THEN 1
                     ELSE 0]

\* CursorToolsVersionManager.is_newer_version: [raised, ret].
IsNewerVersion(latest_v, current_v) ==
    [raised |-> CompareVersions(latest_v, current_v).raised,
     ret |-> CompareVersions(latest_v, current_v).ret > 0]

\* AutoUpdateManager._is_newer_version: [raised, ret].
AutoIsNewerVersion(latest_v, current_v) ==
    LET exc == ParseException(latest_v, current_v)
    IN IF exc # "none"
       THEN [raised |-> exc \notin Caught, ret |-> FALSE]
       ELSE [raised |-> FALSE,
             ret |-> TupleGreater(VersionParts(latest_v).parts,
                                  VersionParts(current_v).parts)]

\* The strings of at most n characters.
RECURSIVE VersionStrings(_)
VersionStrings(n) ==
    IF n = 0 THEN {<<>>}
    ELSE VersionStrings(n - 1)
            \cup {Append(s, c) : s \in VersionStrings(n - 1), c \in VersionChars}

VersionArgs == VersionStrings(MaxVerLen) \cup {None}

NoVerdict == [by |-> "none", raised |-> FALSE, newer |-> FALSE, cmp |-> 0]

\* A call of is_newer_version(latest, current).
DoIsNewerVersion ==
    /\ verdict = NoVerdict
    /\ verdict' = [by |-> "version_manager",
                   raised |-> IsNewerVersion(latest, current).raised,
                   newer |-> IsNewerVersion(latest, current).ret,
                   cmp |-> CompareVersions(latest, current).ret]
    /\ UNCHANGED <<latest, current>>
    /\ UNCHANGED OutsideV

\* A call of _is_newer_version(latest, current).
DoAutoIsNewerVersion ==
    /\ verdict = NoVerdict
    /\ verdict' = [by |-> "auto_update_manager",
                   raised |-> AutoIsNewerVersion(latest, current).raised,
                   newer |-> AutoIsNewerVersion(latest, current).ret,
                   cmp |-> 0]
    /\ UNCHANGED <<latest, current>>
    /\ UNCHANGED OutsideV

VInit ==
    /\ latest \in VersionArgs
    /\ current \in VersionArgs
    /\ verdict = NoVerdict

VNext == DoIsNewerVersion \/ DoAutoIsNewerVersion

VIdle ==
    /\ latest = None
    /\ current = None
    /\ verdict = NoVerdict

(***************************************************************************)
(* AutoUpdateManager (auto_update_manager.py): the update check with its   *)
(* fallback, the choice of the download, and the steps of                  *)
(* perform_update_check_and_install. An asset name is <<stem, extension>>. *)
(***************************************************************************)

\* AutoUpdateConfig.CURRENT_VERSION
CurrentVersion == <<"1", ".", "0", ".", "0">>

\* tag_name of the latest release, as the API gives it.
TagNames ==
    {<<"v", "1", ".", "1", ".", "0">>, <<"1", ".", "0", ".", "0">>, <<"x">>}

\* tag_name.lstrip("v")
RECURSIVE LStripV(_)
LStripV(s) == IF s # <<>> /\ Head(s) = "v" THEN LStripV(Tail(s)) ELSE s

AssetStems == {"Cursor-Tools", "SomeOtherApp"}
AssetExtensions == {".exe", ".EXE", ".zip"}
AssetNames == {<<st, ex>> : st \in AssetStems, ex \in AssetExtensions}

\* str.lower() on the parts of a name.
LowerPart(part) ==
    CASE part = "Cursor-Tools" -> "cursor-tools"
      [] part = "SomeOtherApp" -> "someotherapp"
      [] part = ".EXE" -> ".exe"
      [] OTHER -> part

Lower(name) == <<LowerPart(name[1]), LowerPart(name[2])>>

\* AutoUpdateConfig.is_valid_asset
IsValidAsset(name) ==
    \/ Lower(name) = <<"cursor-tools", ".exe">>
    \/ Lower(name)[1] = "cursor-tools" /\ Lower(name)[2] = ".exe"
    \/ Lower(name)[2] = ".exe"

\* The test of _get_download_url:
\* asset_name.endswith('.exe') and 'cursor-tools' in asset_name.lower()
IsDownloadAsset(name) == name[2] = ".exe" /\ Lower(name)[1] = "cursor-tools"

\* No download URL (None); the browser_download_url of asset i is i.
NoUrl == 0

\* AutoUpdateManager._get_download_url
GetDownloadUrl(asset_list) ==
    IF \E i \in DOMAIN asset_list : IsDownloadAsset(asset_list[i])
    THEN CHOOSE i \in DOMAIN asset_list :
            /\ IsDownloadAsset(asset_list[i])
            /\ \A j \in 1..(i - 1) : ~IsDownloadAsset(asset_list[j])
    ELSE NoUrl

\* The sequences of at most n asset names.
RECURSIVE AssetLists(_)
AssetLists(n) ==
    IF n = 0 THEN {<<>>}
    ELSE AssetLists(n - 1)
            \cup {Append(l, a) : l \in AssetLists(n - 1), a \in AssetNames}

\* What requests.get gives: an HTTP status, or the exception it raises;
\* ":ssl" marks a message that mentions ssl or a certificate, "200:bad" a
\* body that response.json() or the use of it rejects.
Responses ==
    {"200", "200:bad", "403", "500", "Timeout", "SSLError",
     "ConnectionError", "ConnectionError:ssl", "Exception:ssl"}

\* None, for update_info.
NoUpdate == [version |-> <<>>, download_url |-> NoUrl, found |-> FALSE]

\* The body of both checks after the request: the release data, if any.
ReleaseInfo(response, tag_name, asset_list) ==
    IF response = "200" /\ AutoIsNewerVersion(LStripV(tag_name), CurrentVersion).ret
    THEN [version |-> LStripV(tag_name), download_url |-> GetDownloadUrl(asset_list),
          found |-> TRUE]
    ELSE NoUpdate

\* AutoUpdateManager._check_for_updates_fallback, as [requests, ret]: one
\* request with verify=False; every exception gives None.
CheckForUpdatesFallback(response, tag_name, asset_list) ==
    [requests |-> <<[verify |-> FALSE]>>, ret |-> ReleaseInfo(response, tag_name, asset_list)]

\* The handlers of check_for_updates that call the fallback: SSLError, and
\* ConnectionError with ssl or certificate in its message.
NeedsFallbackOnAnyError(response) == response \notin {"200", "403", "500"}
NeedsFallback(response) == response \in {"SSLError", "ConnectionError:ssl"}

\* AutoUpdateManager.check_for_updates, as [requests, ret]; first and retry
\* are what the network answers to the request and to the retry.
CheckForUpdates(first, retry, tag_name, asset_list) ==
    LET fb == CheckForUpdatesFallback(retry, tag_name, asset_list)
    IN IF NeedsFallback(first)
       THEN [requests |-> <<[verify |-> TRUE]>> \o fb.requests, ret |-> fb.ret]
       ELSE [requests |-> <<[verify |-> TRUE]>>,
             ret |-> ReleaseInfo(first, tag_name, asset_list)]

\* No file (None), and the files a download can leave: a size in MB and
\* the first two bytes.
NoDownload == [size |-> -1, magic |-> ""]
Downloads == {[size |-> sz, magic |-> mg] : sz \in {0, 1}, mg \in {"MZ", "PK"}}

\* AutoUpdateManager.verify_download
VerifyAnything(f) == TRUE
VerifyDownload(f) == f # NoDownload /\ f.size >= 1 /\ f.magic = "MZ"

\* perform_update_check_and_install: update_info = self.check_for_updates()
StepCheck ==
    /\ upc = "start"
    /\ LET r == CheckForUpdates(net1, net2, tag, assets)
       IN /\ requests' = r.requests
          /\ info' = r.ret
          /\ upc' = IF r.ret.found THEN "notify" ELSE "returned"
    /\ steps' = Append(steps, "check")
    /\ UNCHANGED <<net1, net2, tag, assets, file>>
    /\ UNCHANGED OutsideU

\* display_update_notification; a refusal exits with status 1; then the
\* download URL is looked at.
StepConfirm(confirm) ==
    /\ upc = "notify"
    /\ steps' = Append(steps, IF confirm THEN "confirm" ELSE "decline")
    /\ upc' = IF ~confirm THEN "exit1"
              ELSE IF info.download_url = NoUrl THEN "returned"
              ELSE "download"
    /\ UNCHANGED <<net1, net2, tag, assets, requests, info, file>>
    /\ UNCHANGED OutsideU

\* download_update
StepDownload(f) ==
    /\ upc = "download"
    /\ file' = f
    /\ steps' = Append(steps, "download")
    /\ upc' = IF f = NoDownload THEN "returned" ELSE "verify"
    /\ UNCHANGED <<net1, net2, tag, assets, requests, info>>
    /\ UNCHANGED OutsideU

\* verify_download
StepVerify ==
    /\ upc = "verify"
    /\ steps' = Append(steps, IF VerifyDownload(file) THEN "verify" ELSE "reject")
    /\ upc' = IF VerifyDownload(file) THEN "backup" ELSE "returned"
    /\ UNCHANGED <<net1, net2, tag, assets, requests, info, file>>
    /\ UNCHANGED OutsideU

\* backup_current_executable: a failure is a warning.
StepBackup(ok) ==
    /\ upc = "backup"
    /\ steps' = Append(steps, IF ok THEN "backup" ELSE "backup failed")
    /\ upc' = "install"
    /\ UNCHANGED <<net1, net2, tag, assets, requests, info, file>>
    /\ UNCHANGED OutsideU

\* install_update: with the batch script started it exits with status 0.
StepInstall(script) ==
    /\ upc = "install"
    /\ steps' = Append(steps, "install")
    /\ upc' = IF script THEN "exit0" ELSE "returned"
    /\ UNCHANGED <<net1, net2, tag, assets, requests, info, file>>
    /\ UNCHANGED OutsideU

UInit ==
    /\ net1 \in Responses
    /\ net2 \in Responses
    /\ tag \in TagNames
    /\ assets \in AssetLists(MaxAssets)
    /\ upc = "start"
    /\ requests = <<>>
    /\ info = NoUpdate
    /\ steps = <<>>
    /\ file = NoDownload

UNext ==
    \/ StepCheck
    \/ \E confirm \in BOOLEAN : StepConfirm(confirm)
    \/ \E f \in Downloads \cup {NoDownload} : StepDownload(f)
    \/ StepVerify
    \/ \E ok \in BOOLEAN : StepBackup(ok)
    \/ \E script \in BOOLEAN : StepInstall(script)

UIdle ==
    /\ net1 = "200"
    /\ net2 = "200"
    /\ tag = <<>>
    /\ assets = <<>>
    /\ upc = "returned"
    /\ requests = <<>>
    /\ info = NoUpdate
    /\ steps = <<>>
    /\ file = NoDownload

(***************************************************************************)
(* The restore selector of reset_machine_id_manager.py over the reset      *)
(* backup directory. A file name is a head followed by a timestamp; a      *)
(* timestamp is a number, later ones larger.                               *)
(***************************************************************************)
Stamps == 0..MaxStamp

\* The patterns of _get_available_backups_and_folders and their file types.
Patterns ==
    [h \in {"storage.json.backup.", "machineId.backup.",
            "workbench.desktop.main.js.backup.", "main.js.backup.",
            "main.js.patch.backup."} |->
        CASE h = "storage.json.backup." -> "Storage JSON"
          [] h = "machineId.backup." -> "Machine ID File"
          [] h = "workbench.desktop.main.js.backup." -> "Workbench JS"
          [] h = "main.js.backup." -> "Main JS"
          [] OTHER -> "Main JS Patch"]

\* The heads of the backup file names written into the reset backup
\* directory: reset_machine_id.py:185,227,272,436,488,525 and
\* pro_features.py:86,149.
PatcherHeads ==
    DOMAIN Patterns \cup
        {"workbench.desktop.main.js.pro.backup.",
         "workbench.desktop.main.js.pro.ui.backup.",
         "state.vscdb.token.backup."}

\* The head of the copy _restore_backup_file makes beside the target.
PreRestoreHead(file_type) ==
    CASE file_type = "Storage JSON" -> "storage.json.pre-restore."
      [] file_type = "Machine ID File" -> "machineId.pre-restore."
      [] file_type = "Workbench JS" -> "workbench.desktop.main.js.pre-restore."
      [] OTHER -> "main.js.pre-restore."

BackupFile(h, t) == [kind |-> "file", head |-> h, ts |-> t]

\* A folder with a manifest: its timestamp, or 'unknown' for a manifest
\* that does not parse.
BackupFolder(t) == [kind |-> "folder", head |-> "2", ts |-> t]
UnknownFolder == [kind |-> "folder", head |-> "unknown", ts |-> 0]

\* re.match(pattern, filename) for one of the patterns.
Matches(item) == item.kind = "file" /\ item.head \in DOMAIN Patterns

\* The strings sort_key returns start with these, here in the order of
\* Python's string comparison (a folder's timestamp starts with a digit).
KeyOrder ==
    <<"2", "machineId.backup.", "main.js.backup.", "main.js.patch.backup.",
      "storage.json.backup.", "unknown", "workbench.desktop.main.js.backup.">>

\* sort_key(item), as a pair compared left to right.
SelectorKey(item) ==
    <<CHOOSE i \in DOMAIN KeyOrder : KeyOrder[i] = item.head, item.ts>>

KeyLessOrEqual(a, b) == a[1] < b[1] \/ (a[1] = b[1] /\ a[2] <= b[2])

\* backup_items.sort(key=sort_key, reverse=True): a sequence is a possible
\* result when it holds the items once each with non-increasing keys.
SortedByTimestamp(seq) ==
    \A i, j \in DOMAIN seq : i < j => seq[i].ts >= seq[j].ts
SortedNewestFirst(seq) ==
    \A i, j \in DOMAIN seq :
        i < j => KeyLessOrEqual(SelectorKey(seq[j]), SelectorKey(seq[i]))

\* The items _get_available_backups_and_folders collects from a directory.
BackupItems(d) == {e \in d : e.kind = "folder" \/ Matches(e)}

\* _restore_backup_file: the copy of the current target, then the restore.
RestoreBackupFile(item, t) ==
    [head |-> PreRestoreHead(Patterns[item.head]), ts |-> t, where |-> "target_dir"]

\* A patcher writes its backup file.
PatcherBackup(h, t) ==
    /\ sops < MaxEntries
    /\ sops' = sops + 1
    /\ sdir' = sdir \cup {BackupFile(h, t)}
    /\ written' = written \cup {[head |-> h, ts |-> t, where |-> "reset_backups_dir"]}
    /\ listing' = <<>>
    /\ shown' = FALSE
    /\ UNCHANGED OutsideS

\* A comprehensive backup folder is created; parses is whether its manifest
\* can be read later.
ComprehensiveBackup(t, parses) ==
    /\ sops < MaxEntries
    /\ sops' = sops + 1
    /\ sdir' = sdir \cup {IF parses THEN BackupFolder(t) ELSE UnknownFolder}
    /\ listing' = <<>>
    /\ shown' = FALSE
    /\ UNCHANGED written
    /\ UNCHANGED OutsideS

\* Some other file lands in the directory.
StrayFile ==
    /\ sops < MaxEntries
    /\ sops' = sops + 1
    /\ sdir' = sdir \cup {BackupFile("notes.txt", 0)}
    /\ listing' = <<>>
    /\ shown' = FALSE
    /\ UNCHANGED written
    /\ UNCHANGED OutsideS

\* ResetMachineIDManager._get_available_backups_and_folders
GetAvailableBackupsAndFolders ==
    /\ ~shown
    /\ \E seq \in [1..Cardinality(BackupItems(sdir)) -> BackupItems(sdir)] :
          /\ \A e \in BackupItems(sdir) : \E i \in DOMAIN seq : seq[i] = e
          /\ SortedNewestFirst(seq)
          /\ listing' = seq
    /\ shown' = TRUE
    /\ UNCHANGED <<sdir, written, sops>>
    /\ UNCHANGED OutsideS

\* The user selects file i of the list: _restore_backup_file, which copies
\* the current target beside it first.
RestoreSelected(i, t) ==
    /\ shown
    /\ i \in DOMAIN listing
    /\ listing[i].kind = "file"
    /\ written' = written \cup {RestoreBackupFile(listing[i], t)}
    /\ listing' = <<>>
    /\ shown' = FALSE
    /\ UNCHANGED <<sdir, sops>>
    /\ UNCHANGED OutsideS

SInit ==
    /\ sdir = {}
    /\ written = {}
    /\ listing = <<>>
    /\ shown = FALSE
    /\ sops = 0

SNext ==
    \/ \E h \in PatcherHeads, t \in Stamps : PatcherBackup(h, t)
    \/ \E t \in Stamps, parses \in BOOLEAN : ComprehensiveBackup(t, parses)
    \/ StrayFile
    \/ GetAvailableBackupsAndFolders
    \/ \E i \in 1..MaxEntries, t \in Stamps : RestoreSelected(i, t)

SIdle == SInit

(***************************************************************************)
(* Restoring a backup folder file by file:                                 *)
(* ResetMachineIDManager._restore_comprehensive_backup and                 *)
(* ProUIFeaturesBackupManager.restore_backup. The manifest lists files     *)
(* 1..MaxManifest; a target holds "current", "backup" or "torn" content or *)
(* is "absent".                                                            *)
(***************************************************************************)
ManifestFiles == 1..MaxManifest

\* What can happen to one file of the loop: nothing, the copy of the
\* current target raises, or the restoring copy raises before or after
\* it has touched the target.
CopyFaults == {"ok", "pre", "copy", "torn"}

NoRestore == [op |-> "none"]

\* One pass of the loop body of _restore_comprehensive_backup (with_pre) or
\* of restore_backup (without) on file i.
RestoreFile(st, i, has_backup, fault, with_pre) ==
    IF ~has_backup
    THEN [st EXCEPT !.failed = @ + 1]
    ELSE IF with_pre /\ st.targets[i] # "absent" /\ fault = "pre"
    THEN [st EXCEPT !.failed = @ + 1]
    ELSE LET copied == IF with_pre /\ st.targets[i] # "absent"
                       THEN [st EXCEPT !.pre = @ \cup {i}] ELSE st
         IN CASE fault = "copy" -> [copied EXCEPT !.failed = @ + 1]
              [] fault = "torn" -> [copied EXCEPT !.failed = @ + 1,
                                                  !.targets[i] = "torn"]
              [] OTHER -> [copied EXCEPT !.restored = @ + 1,
                                         !.targets[i] = "backup"]

\* The loop abandoned at the first failed file.
RECURSIVE RestoreFilesStopping(_, _, _, _, _)
RestoreFilesStopping(st, i, has_backup, fault, with_pre) ==
    IF i > MaxManifest \/ st.failed > 0 THEN st
    ELSE RestoreFilesStopping(
             RestoreFile(st, i, has_backup[i], fault[i], with_pre),
             i + 1, has_backup, fault, with_pre)

\* for file_info in manifest.get('files', []): from file i on.
RECURSIVE RestoreFiles(_, _, _, _, _)
RestoreFiles(st, i, has_backup, fault, with_pre) ==
    IF i > MaxManifest THEN st
    ELSE RestoreFiles(
             RestoreFile(st, i, has_backup[i], fault[i], with_pre),
             i + 1, has_backup, fault, with_pre)

LoopStart == [targets |-> ctargets, pre |-> cpre, restored |-> 0, failed |-> 0]

\* ResetMachineIDManager._restore_comprehensive_backup(backup_info)
RestoreComprehensiveBackup(confirm, manifest_ok, fault) ==
    /\ clast = NoRestore
    /\ IF ~confirm \/ ~manifest_ok
       THEN /\ clast' = [op |-> "comprehensive", ran |-> FALSE, ret |-> FALSE]
            /\ UNCHANGED <<ctargets, cpre>>
       ELSE LET st == RestoreFiles(LoopStart, 1, cpresent, fault, TRUE)
            IN /\ ctargets' = st.targets
               /\ cpre' = st.pre
               /\ clast' = [op |-> "comprehensive", ran |-> TRUE,
                            ret |-> (st.failed = 0),
                            restored |-> st.restored, failed |-> st.failed,
                            fault |-> fault, before |-> ctargets]
    /\ UNCHANGED <<cpresent, cdrift>>
    /\ UNCHANGED OutsideC

\* ProUIFeaturesBackupManager.restore_backup(backup_name)
ProRestoreBackup(found, fault) ==
    /\ clast = NoRestore
    /\ IF ~found
       THEN /\ clast' = [op |-> "pro", ran |-> FALSE, ret |-> FALSE]
            /\ UNCHANGED <<ctargets, cpre>>
       ELSE LET st == RestoreFiles(LoopStart, 1, cpresent,
                          [i \in ManifestFiles |->
                              IF fault[i] = "pre" THEN "ok" ELSE fault[i]],
                          FALSE)
            IN /\ ctargets' = st.targets
               /\ cpre' = st.pre
               /\ clast' = [op |-> "pro", ran |-> TRUE,
                            ret |-> (st.failed = 0),
                            restored |-> st.restored, failed |-> st.failed,
                            fault |-> [i \in ManifestFiles |->
                              IF fault[i] = "pre" THEN "ok" ELSE fault[i]],
                            before |-> ctargets]
    /\ UNCHANGED <<cpresent, cdrift>>
    /\ UNCHANGED OutsideC

\* Before the restore a file of the backup folder disappears.
LoseBackupFile(i) ==
    /\ clast = NoRestore
    /\ cdrift < MaxDrift
    /\ cpresent[i]
    /\ cdrift' = cdrift + 1
    /\ cpresent' = [cpresent EXCEPT ![i] = FALSE]
    /\ UNCHANGED <<ctargets, cpre, clast>>
    /\ UNCHANGED OutsideC

\* Before the restore a target is deleted, rewritten by the editor or left
\* by an earlier restore.
ChangeTarget(i, becomes) ==
    /\ clast = NoRestore
    /\ cdrift < MaxDrift
    /\ ctargets[i] # becomes
    /\ cdrift' = cdrift + 1
    /\ ctargets' = [ctargets EXCEPT ![i] = becomes]
    /\ UNCHANGED <<cpresent, cpre, clast>>
    /\ UNCHANGED OutsideC

CInit ==
    /\ ctargets = [i \in ManifestFiles |-> "current"]
    /\ cpresent = [i \in ManifestFiles |-> TRUE]
    /\ cpre = {}
    /\ clast = NoRestore
    /\ cdrift = 0

CNext ==
    \/ \E confirm, manifest_ok \in BOOLEAN, fault \in [ManifestFiles -> CopyFaults] :
          RestoreComprehensiveBackup(confirm, manifest_ok, fault)
    \/ \E found \in BOOLEAN, fault \in [ManifestFiles -> CopyFaults] :
          ProRestoreBackup(found, fault)
    \/ \E i \in ManifestFiles : LoseBackupFile(i)
    \/ \E i \in ManifestFiles, becomes \in {"absent", "current", "backup"} :
          ChangeTarget(i, becomes)

CIdle == CInit

(***************************************************************************)
(* The main menu loop of main.py: CursorToolsApp.run, exit_application and *)
(* main.                                                                   *)
(***************************************************************************)
FeatureChoices == {"1", "2", "3", "4", "5", "6"}
ExitChoice == "7"

\* What get_user_choice returns on Ctrl+C.
Cancelled == "None"

\* The process has ended: run returned to main, sys.exit(0) was called, or
\* a KeyboardInterrupt left main.
Terminated == apc \in {"returned", "exited", "interrupted"}

\* display_main_menu, then get_user_choice with a valid choice or Ctrl+C; an
\* invalid choice is asked again inside get_user_choice. A feature choice
\* runs that feature's menu; the exit choice and Ctrl+C call
\* exit_application.
MainMenu(picked) ==
    /\ apc = "menu"
    /\ ashown < MaxMenus
    /\ ashown' = ashown + 1
    /\ achoice' = picked
    /\ apc' = IF picked \in FeatureChoices THEN "feature" ELSE "confirm"
    /\ avia' = IF picked \in FeatureChoices THEN avia ELSE "loop"
    /\ UNCHANGED aanswer
    /\ UNCHANGED OutsideA

\* The feature's menu returns: while True goes round.
FeatureReturns ==
    /\ apc = "feature"
    /\ apc' = "menu"
    /\ UNCHANGED <<achoice, avia, aanswer, ashown>>
    /\ UNCHANGED OutsideA

\* Ctrl+C inside a feature: except KeyboardInterrupt calls exit_application.
FeatureInterrupted ==
    /\ apc = "feature"
    /\ apc' = "confirm"
    /\ avia' = "handler"
    /\ UNCHANGED <<achoice, aanswer, ashown>>
    /\ UNCHANGED OutsideA

\* A feature raises: except Exception shows the error and run returns.
FeatureRaises ==
    /\ apc = "feature"
    /\ apc' = "returned"
    /\ UNCHANGED <<achoice, avia, aanswer, ashown>>
    /\ UNCHANGED OutsideA

\* exit_application: confirm_action answered. Yes is sys.exit(0); on no
\* exit_application returns, to the break after it or to the end of the
\* except clause, and run returns.
ExitApplication(confirm) ==
    /\ apc = "confirm"
    /\ aanswer' = IF confirm THEN "yes" ELSE "no"
    /\ apc' = IF confirm THEN "exited" ELSE "returned"
    /\ UNCHANGED <<achoice, avia, ashown>>
    /\ UNCHANGED OutsideA

\* Ctrl+C at the confirmation: inside the loop's try it reaches except
\* KeyboardInterrupt, which asks again; inside the except clause it leaves
\* run and main, whose handlers catch Exception only.
ConfirmInterrupted ==
    /\ apc = "confirm"
    /\ IF avia = "loop"
       THEN apc' = "confirm" /\ avia' = "handler"
       ELSE apc' = "interrupted" /\ avia' = avia
    /\ UNCHANGED <<achoice, aanswer, ashown>>
    /\ UNCHANGED OutsideA

AInit ==
    /\ apc = "menu"
    /\ achoice = "none"
    /\ avia = "none"
    /\ aanswer = "none"
    /\ ashown = 0

ANext ==
    \/ \E picked \in FeatureChoices \cup {ExitChoice, Cancelled} : MainMenu(picked)
    \/ FeatureReturns
    \/ FeatureInterrupted
    \/ FeatureRaises
    \/ \E confirm \in BOOLEAN : ExitApplication(confirm)
    \/ ConfirmInterrupted

AIdle ==
    /\ apc = "exited"
    /\ achoice = "none"
    /\ avia = "none"
    /\ aanswer = "none"
    /\ ashown = 0

Init == MInit /\ BIdle /\ RIdle /\ GIdle /\ VIdle /\ UIdle /\ SIdle /\ CIdle /\ AIdle

Next == MNext

Spec == Init /\ [][Next]_vars

BackupInit == BInit /\ MIdle /\ RIdle /\ GIdle /\ VIdle /\ UIdle /\ SIdle /\ CIdle /\ AIdle

BackupNext == BNext

BackupSpec == BackupInit /\ [][BackupNext]_vars

RootInit == RInit /\ MIdle /\ BIdle /\ GIdle /\ VIdle /\ UIdle /\ SIdle /\ CIdle /\ AIdle

RootNext == RNext

RootSpec == RootInit /\ [][RootNext]_vars

RegistryInit == GInit /\ MIdle /\ BIdle /\ RIdle /\ VIdle /\ UIdle /\ SIdle /\ CIdle /\ AIdle

RegistryNext == GNext

RegistrySpec == RegistryInit /\ [][RegistryNext]_vars

VersionInit == VInit /\ MIdle /\ BIdle /\ RIdle /\ GIdle /\ UIdle /\ SIdle /\ CIdle /\ AIdle

VersionNext == VNext

VersionSpec == VersionInit /\ [][VersionNext]_vars

UpdateInit == UInit /\ MIdle /\ BIdle /\ RIdle /\ GIdle /\ VIdle /\ SIdle /\ CIdle /\ AIdle

UpdateNext == UNext

UpdateSpec == UpdateInit /\ [][UpdateNext]_vars

SelectorInit == SInit /\ MIdle /\ BIdle /\ RIdle /\ GIdle /\ VIdle /\ UIdle /\ CIdle /\ AIdle

SelectorNext == SNext

SelectorSpec == SelectorInit /\ [][SelectorNext]_vars

ComprehensiveInit == CInit /\ MIdle /\ BIdle /\ RIdle /\ GIdle /\ VIdle /\ UIdle /\ SIdle /\ AIdle

ComprehensiveNext == CNext

ComprehensiveSpec == ComprehensiveInit /\ [][ComprehensiveNext]_vars

MenuInit == AInit /\ MIdle /\ BIdle /\ RIdle /\ GIdle /\ VIdle /\ UIdle /\ SIdle /\ CIdle

MenuNext == ANext

MenuSpec == MenuInit /\ [][MenuNext]_vars

(***************************************************************************)
(* Properties of the mutation routines, checked under Spec.                *)
(***************************************************************************)
Returned == pc = "done"
Succeeded == pc = "done" /\ result = "ok"

\* C1: whenever a patch-and-backup mutation returns success, the backup file
\* created by that call holds exactly the content the target had immediately
\* before the call.
C1_BackupHoldsPreCallContent ==
    Succeeded =>
        /\ backup_path \in DOMAIN backups
        /\ backups[backup_path].content = pre.target.content

\* A successful safe_file_modify, modify_workbench_js or modify_main_js that
\* changed the target and whose backup holds the old bytes.
C1_Witness ==
    /\ Succeeded
    /\ variant \in {"sfm", "wb", "main"}
    /\ target.content # pre.target.content
    /\ backup_path \in DOMAIN backups
    /\ backups[backup_path].content = pre.target.content

\* C2: the original file is never lost: after any sequence of mutation calls
\* on the same target, whatever time elapses between them, some backup file
\* still holds the content the target had before the first mutation.
C2_OriginalNeverLost ==
    mutated => \E n \in DOMAIN backups : backups[n].content = orig

\* C3: a crash mid-write does not corrupt the target: in every intermediate
\* state of a mutation the target path holds either the complete original
\* content or the complete transformed content, never a missing or partially
\* written file.
C3_TargetNeverCorrupt ==
    (pc # "idle" /\ pre.target.exists) =>
        /\ target.exists
        /\ \/ target.content = pre.target.content
           \/ target.content = Transformed(variant, pre.target.content, rules)

\* C4: mutation is fail-closed: if reading the target or applying the rules
\* throws, the call returns failure, no backup file has been created in the
\* backup directory, and the target file is unchanged.
C4_FailClosed ==
    (Returned /\ failedAt \in {"read", "transform"}) =>
        /\ result = "fail"
        /\ backups = pre.backups
        /\ target = pre.target

\* C4 (amended): if reading the target or applying the rules throws, the call
\* returns failure and the target file is unchanged; modify_workbench_js,
\* modify_main_js and _remove_update_url have created no backup file by then,
\* while safe_file_modify, which backs up first, has left a backup holding
\* the target's content.
C4_FailureLeavesTarget ==
    (Returned /\ failedAt \in {"read", "transform"}) =>
        /\ result = "fail"
        /\ target = pre.target
        /\ variant \in {"wb", "main", "old"} => backups = pre.backups
        /\ variant = "sfm" =>
              /\ backup_path \in DOMAIN backups
              /\ backups[backup_path].content = target.content

\* safe_file_modify failed while applying its rules, after writing a backup
\* file that was not there before the call.
C4_Witness ==
    /\ Returned
    /\ failedAt = "transform"
    /\ variant = "sfm"
    /\ result = "fail"
    /\ target = pre.target
    /\ backup_path \in DOMAIN backups \ DOMAIN pre.backups

\* C5: after every successful mutation call the target contains the
\* transformed content and the backup directory contains exactly one file
\* that was not there before the call.
C5_ExactlyOneNewBackup ==
    Succeeded =>
        /\ target.content = Transformed(variant, pre.target.content, rules)
        /\ Cardinality(DOMAIN backups \ DOMAIN pre.backups) = 1

\* C6: when a mutation fails at a step before the backup/swap (stat, read,
\* transform, temp write), no on-disk change remains: the target is unchanged
\* and the temporary file created by the call has been removed.
C6_EarlyFailureLeavesNoTrace ==
    (Returned /\ result = "fail" /\ failedAt \in {"stat", "read", "transform", "write"}) =>
        /\ target = pre.target
        /\ ~tmp.exists

\* C7: for every successful mutation, the permission bits of the target after
\* the call equal the permission bits it had before the call.
C7_ModePreserved ==
    Succeeded => target.mode = pre.target.mode

\* A successful mutation that replaced the target's bytes and ended with the
\* mode the file had before.
C7_Witness ==
    /\ Succeeded
    /\ variant # "ui"
    /\ target.content # pre.target.content
    /\ target.mode = pre.target.mode

\* No rule's pattern occurs in the text the call reads (true of the empty table).
NoPatternOccurs ==
    \A i \in DOMAIN rules :
        \A j \in 1..Len(ReadText(pre.target.content)) :
            ~MatchAt(ReadText(pre.target.content), j, rules[i].pat,
                     UsesRegex(variant, rules[i]))

\* C8: a rule whose pattern does not occur in the file is a no-op and not an
\* error, and mutating with an empty rule set succeeds and leaves the target
\* content identical to its input (mutate(f, {}) == f).
C8_AbsentPatternIsIdentity ==
    (Returned /\ failedAt = "none" /\ NoPatternOccurs) =>
        /\ result \in {"ok", "skip"}
        /\ target.content = pre.target.content

(***************************************************************************)
(* Properties of BackupManager, checked under BackupSpec.                  *)
(***************************************************************************)
Restored == last.op = "restore"

\* The restore was asked for a backup whose manifest parses and whose
\* backup_path no longer exists.
RestoredFromMissingCopy ==
    /\ Restored
    /\ last.store[last.id].manifest.status = "ok"
    /\ last.store[last.id].copy.kind = "none"

\* C9: restore_backup(id) on a manifest whose backup_path no longer exists
\* returns False, leaves the current file at source_path untouched, and
\* creates no pre_restore backup.
C9_MissingCopyRefused ==
    RestoredFromMissingCopy =>
        /\ ~last.ok
        /\ files = last.files
        /\ store = last.store

\* Such a restore was refused while the source was there to be snapshotted.
C9_Witness ==
    /\ RestoredFromMissingCopy
    /\ last.files[last.src].kind # "none"
    /\ ~last.ok

\* C10: whenever restore_backup overwrites an existing source_path, a backup
\* of type "pre_restore" holding the content source_path had just before the
\* restore has been created first, so that every restore that returns True
\* over an existing source is itself recoverable.
C10_PreRestoreHoldsPriorState ==
    (Restored /\ last.ok /\ last.files[last.src].kind # "none") =>
        \E id \in DOMAIN store :
            /\ id[1] = "pre_restore"
            /\ store[id].manifest.status = "ok"
            /\ store[id].manifest.source_path = last.src
            /\ store[id].copy = last.files[last.src]

\* C11: a backup entry is immutable once written: after create_backup has
\* returned its id, no create_backup, list_backups or restore_backup call
\* changes its stored copy or its manifest or removes it.
C11_EntryImmutable ==
    [][last'.op \in {"create", "restore", "list"} =>
         \A id \in issued : id \in DOMAIN store' /\ store'[id] = store[id]]_vars

\* C12: backup ids are unique per snapshot: a create_backup call that returns
\* an id never returns one that an earlier call has returned.
C12_IdsUnique ==
    [][(last'.op = "create" /\ last'.ok /\ ops' = ops + 1) =>
         last'.ret \notin issued]_vars

(***************************************************************************)
(* Properties of list_backups and cleanup_old_backups, checked under       *)
(* RootSpec.                                                               *)
(***************************************************************************)
Listed == rlast.op = "list"

\* What the same call returns without a limit.
Unlimited == ListBackups(rlast.root, rlast.order, rlast.backup_type, NoLimit)

\* C13: the sequence list_backups returns is ordered by manifest timestamp
\* descending, and with a limit it is the prefix of that ordering of at most
\* limit entries.
C13_ListNewestFirst ==
    Listed =>
        /\ \A i, j \in DOMAIN rlast.out :
               i < j => SortKey(rlast.root[rlast.out[i]]) >= SortKey(rlast.root[rlast.out[j]])
        /\ rlast.limit # NoLimit =>
               /\ Len(rlast.out) <= rlast.limit[1]
               /\ Len(rlast.out) = Len(Unlimited) \/ Len(rlast.out) = rlast.limit[1]
               /\ rlast.out = SubSeq(Unlimited, 1, Len(rlast.out))

\* C14: list_backups skips every folder whose manifest is missing or corrupt
\* without failing the listing: it returns only folders whose manifest
\* parses, and every one of them that has the requested type.
C14_ListSkipsCorrupt ==
    (Listed /\ rlast.limit = NoLimit) =>
        /\ \A i \in DOMAIN rlast.out : rlast.root[rlast.out[i]].status = "ok"
        /\ \A id \in DOMAIN rlast.root :
               (/\ rlast.root[id].status = "ok"
                /\ rlast.backup_type # "" => rlast.root[id].backup_type = rlast.backup_type)
               => \E i \in DOMAIN rlast.out : rlast.out[i] = id

Cleaned == rlast.op \in {"cleanup", "procleanup"}

\* The manifest carries a creation date: created_date for BackupManager, the
\* timestamp for ProUIFeaturesBackupManager.
HasDate(f) ==
    /\ f.status = "ok"
    /\ IF rlast.op = "cleanup" THEN f.created.kind \in {"naive", "aware"}
       ELSE f.ts.kind = "str"

AgeInDays(f) ==
    rlast.today - (IF rlast.op = "cleanup" THEN f.created.val ELSE f.ts.val)

\* C15: cleanup_old_backups(N) never removes a backup whose manifest creation
\* date is at most N days old, and (when no deletion fails) removes every
\* backup whose creation date is more than N days old.
C15_CleanupByAge ==
    Cleaned =>
        \A id \in DOMAIN rlast.root :
            HasDate(rlast.root[id]) =>
                /\ AgeInDays(rlast.root[id]) <= rlast.days =>
                       id \in DOMAIN root /\ root[id] = rlast.root[id]
                /\ (AgeInDays(rlast.root[id]) > rlast.days /\ rlast.failing = "") =>
                       id \notin DOMAIN root

\* C16: BackupManager.cleanup_old_backups returns exactly the number of
\* folders it removed, and leaves untouched every folder whose manifest is
\* missing, corrupt, or lacks a parseable creation date.
C16_CleanupCountsAndSpares ==
    rlast.op = "cleanup" =>
        /\ rlast.ret = Cardinality(DOMAIN rlast.root \ DOMAIN root)
        /\ \A id \in DOMAIN rlast.root :
               (\/ rlast.root[id].status # "ok"
                \/ rlast.root[id].created.kind \in {"absent", "bad"})
               => id \in DOMAIN root /\ root[id] = rlast.root[id]

\* A sweep that removed a folder and met one without a manifest, one whose
\* manifest does not parse, or one whose manifest has no usable date.
C16_Witness ==
    /\ rlast.op = "cleanup"
    /\ rlast.ret >= 1
    /\ \E id \in DOMAIN root : root[id].status = "corrupt"
    /\ \E id \in DOMAIN root :
          root[id].status = "none" \/ root[id].created.kind \in {"absent", "bad"}

(***************************************************************************)
(* RegistrySpec: the device-id registry operations behind the menu.        *)
(***************************************************************************)

\* The last menu operation ran modify_device_ids up to its writes.
Modified == glog.op = "change" /\ glog.attempted

\* The position of a path in the modification loop.
PathIndex(p) == CHOOSE i \in DOMAIN RegPaths : RegPaths[i] = p

\* C17: modify_device_ids creates the registry backup, holding the pre-write
\* values, before it writes anything; when the write to a path fails it
\* invokes restore_backup on that backup, lets its caller know whether the
\* restore succeeded or failed, has written no path after the failing one,
\* and raises.
C17_ModifyRollsBackAndReports ==
    Modified =>
        /\ glog.backup = <<ReadRegistryValues(glog.regBefore[1])>>
        /\ glog.failed # "" =>
              /\ glog.restored
              /\ glog.restoredFrom = glog.backup
              /\ glog.reported = (IF glog.restoreOk THEN "succeeded" ELSE "failed")
              /\ \A i \in DOMAIN glog.written :
                    PathIndex(glog.written[i]) < PathIndex(glog.failed)
              /\ glog.raised

\* What a read of value n under key p must give when the registry is rg.
ExpectedValue(rg, p, n) ==
    CASE rg[p].vals[Slot(p, n)] = "none" -> NotFound
      [] rg[p].vals[Slot(p, n)] = "broken" -> QueryError
      [] OTHER -> rg[p].vals[Slot(p, n)]

\* values has an entry for every configured path: a single "Error" entry,
\* or exactly the configured value names of the path.
OnlyTargets(values) ==
    /\ DOMAIN values = RegPathSet
    /\ \A p \in RegPathSet :
          \/ DOMAIN values[p] = {"Error"}
          \/ DOMAIN values[p] = TargetValues(p)

\* values is what the registry rg holds under the configured names.
ReadOf(values, rg) ==
    \A p \in RegPathSet :
        IF rg[p].key \in {"missing", "denied"}
        THEN DOMAIN values[p] = {"Error"}
        ELSE \A n \in TargetValues(p) :
               n \in DOMAIN values[p] /\ values[p][n] = ExpectedValue(rg, p, n)

\* The last menu operation called read_registry_values.
HasRead == glog.before # <<>>

\* C18: read_registry_values returns, for every configured path, either
\* exactly the configured value names of that path, each mapped to its value,
\* "Not found" or an "Error: ..." string, or a single "Error" entry when the
\* key cannot be opened; no other value is read, and none is captured in a
\* backup.
C18_ReadsOnlyTargets ==
    /\ HasRead =>
          /\ OnlyTargets(glog.before[1])
          /\ ReadOf(glog.before[1], glog.regBefore[1])
    /\ \A i \in DOMAIN saved : OnlyTargets(saved[i])

\* A change that read and saved a registry with an unopenable key, a missing
\* value and a value whose query fails.
C18_Witness ==
    /\ glog.op = "change"
    /\ HasRead
    /\ saved # <<>>
    /\ \E p, q, r \in RegPathSet :
          /\ DOMAIN glog.before[1][p] = {"Error"}
          /\ \E n \in DOMAIN glog.before[1][q] : glog.before[1][q][n] = NotFound
          /\ \E n \in DOMAIN glog.before[1][r] : glog.before[1][r][n] = QueryError

\* The last menu operation was one of the two device-id operations.
DeviceIdOperation == glog.op \in {"change", "restore"}

\* C19: from application start, a device-id operation attempts a registry
\* write (modify_device_ids, restore_backup) only after a privilege check
\* that returned true, in a process is_admin() let through; when the check
\* fails no write is attempted and the registry is as it was.
C19_CheckPrecedesWrite ==
    /\ gpc = "menu" => elevated
    /\ glog.attempted => elevated
    /\ DeviceIdOperation =>
          /\ glog.attempted => glog.checked = "passed"
          /\ glog.checked = "failed" => ~glog.attempted /\ reg = glog.regBefore[1]

\* A restore that passed the check and changed the registry.
C19_Witness ==
    /\ glog.op = "restore"
    /\ glog.checked = "passed"
    /\ glog.attempted
    /\ reg # glog.regBefore[1]

(***************************************************************************)
(* VersionSpec: is_newer_version and _is_newer_version on every pair of    *)
(* arguments.                                                              *)
(***************************************************************************)

\* A comparison has been made.
Compared == verdict.by # "none"

\* The segments of a version string, as the text between its dots.
Segments(v) ==
    LET dots == {i \in DOMAIN v : v[i] = "."}
        starts == {1} \cup {i + 1 : i \in dots}
        EndOf(b) == IF \E i \in dots : i >= b
                    THEN (CHOOSE i \in dots : i >= b /\ \A j \in dots : j >= b => i <= j) - 1
                    ELSE Len(v)
        Nth(n) == CHOOSE b \in starts : Cardinality({c \in starts : c < b}) = n - 1
    IN [n \in 1..Cardinality(starts) |-> SubSeq(v, Nth(n), EndOf(Nth(n)))]

IsDigit(c) == c \in {"0", "1", "2", "3", "4", "5", "6", "7", "8", "9"}

\* The number a sequence of digits writes.
RECURSIVE Decimal(_)
Decimal(ds) ==
    IF ds = <<>> THEN 0
    ELSE 10 * Decimal(SubSeq(ds, 1, Len(ds) - 1))
            + (CHOOSE n \in 0..9 : DigitValue(ds[Len(ds)]) = n)

\* A segment made of decimal digits and nothing else.
Numeric(seg) == seg # <<>> /\ \A i \in DOMAIN seg : IsDigit(seg[i])

\* Every segment of v is numeric.
WellFormed(v) == v # None /\ \A i \in DOMAIN Segments(v) : Numeric(Segments(v)[i])

\* A segment int() accepts: digits, with single underscores between them,
\* after an optional sign, with white space allowed at both ends.
IntLiteral(seg) ==
    \E a \in 1..Len(seg), b \in 1..Len(seg) :
        /\ a <= b
        /\ \A i \in 1..(a - 1) : IsSpace(seg[i]) \/ (i = a - 1 /\ seg[i] \in {"+", "-"})
        /\ \A i \in (b + 1)..Len(seg) : IsSpace(seg[i])
        /\ IsDigit(seg[a]) /\ IsDigit(seg[b])
        /\ \A i \in a..b : IsDigit(seg[i]) \/ (seg[i] = "_" /\ IsDigit(seg[i + 1]))

\* The integer an accepted segment stands for.
IntOf(seg) ==
    LET n == Decimal(SelectSeq(seg, IsDigit))
    IN IF \E i \in DOMAIN seg : seg[i] = "-" THEN 0 - n ELSE n

\* Every segment of v is accepted by int().
Parses(v) == v # None /\ \A i \in DOMAIN Segments(v) : IntLiteral(Segments(v)[i])

\* The integer tuple of a version that parses.
TupleOf(v) == [i \in DOMAIN Segments(v) |-> IntOf(Segments(v)[i])]

\* x is greater than y in the order of tuples: at the first position where
\* they differ x is larger, or y is a proper prefix of x.
Greater(x, y) ==
    \E k \in DOMAIN x :
        /\ \A i \in 1..(k - 1) : i <= Len(y) /\ x[i] = y[i]
        /\ k > Len(y) \/ x[k] > y[k]

\* C20: "latest is newer than current" holds exactly when every segment of
\* both versions is a decimal number and latest's integer tuple is greater
\* than current's; a non-numeric or malformed segment in either argument
\* gives "not newer", and nothing is raised.
C20_NewerIffGreater ==
    Compared =>
        /\ ~verdict.raised
        /\ verdict.newer <=>
              /\ WellFormed(latest) /\ WellFormed(current)
              /\ Greater(TupleOf(latest), TupleOf(current))

\* C20 (amended): "latest is newer than current" holds exactly when int()
\* accepts every segment of both versions (digits, optionally signed, white
\* space allowed around them) and latest's integer tuple is greater than
\* current's; compare_versions gives 1, -1 or 0 accordingly, 0 when a
\* segment is rejected or an argument is None, and nothing is raised.
C20_NewerIffParsedGreater ==
    Compared =>
        /\ ~verdict.raised
        /\ verdict.newer <=>
              /\ Parses(latest) /\ Parses(current)
              /\ Greater(TupleOf(latest), TupleOf(current))
        /\ verdict.by = "version_manager" =>
              verdict.cmp =
                  IF ~(Parses(latest) /\ Parses(current)) THEN 0
                  ELSE IF Greater(TupleOf(latest), TupleOf(current)) THEN 1
                  ELSE IF Greater(TupleOf(current), TupleOf(latest)) THEN -1
                  ELSE 0

\* A two-segment version found newer than another one.
C20_Witness ==
    /\ Compared
    /\ verdict.newer
    /\ WellFormed(latest) /\ WellFormed(current)
    /\ Len(TupleOf(latest)) = 2 /\ Len(TupleOf(current)) = 2

\* The last change failed at a path and its restore went through.
RolledBack == glog.op = "change" /\ glog.restored /\ glog.restoreOk

\* C27: create_backup followed by restore_backup of that backup leaves every
\* target value of the registry as it was when the backup was made, absent
\* and unreadable values included, and restore never writes a sentinel
\* string ("Not found", "Error: ...") into the registry as a value.
C27_RegistryRoundTrip ==
    /\ RolledBack =>
          \A p \in RegPathSet : reg[p].vals = glog.regBefore[1][p].vals
    /\ DeviceIdOperation =>
          \A p \in RegPathSet :
              reg[p].vals["Target"] \in {NotFound, QueryError} =>
                 glog.regBefore[1][p].vals["Target"] = reg[p].vals["Target"]

\* C26: if create_backup(f, type) returned id then, whatever happened to f
\* and to other entries since, restore_backup(id) returns True and leaves f
\* exactly as it was when the backup was created (for a directory, the same
\* tree with no extra file). I/O errors and the deletion of the stored copy
\* from outside are left aside.
C26_RoundTrip ==
    (Restored /\ faults = 0 /\ last.store[last.id].copy.kind # "none") =>
        \A m \in made :
            m[1] = last.id => last.ok /\ files[m[2]] = m[3]

(***************************************************************************)
(* UpdateSpec: the update check and the steps after it.                    *)
(***************************************************************************)

\* check_for_updates has returned.
Checked == steps # <<>>

\* C21: check_for_updates always returns: after a timeout or a connection
\* failure it returns None; it makes the first request with verification
\* and at most one retry, the retry without SSL verification; a retry that
\* fails in any way gives None and is not retried.
C21_CheckNeverFatal ==
    Checked =>
        /\ upc \in {"returned", "notify"} \/ Len(steps) > 1
        /\ Len(requests) \in {1, 2}
        /\ requests[1].verify
        /\ Len(requests) = 2 => ~requests[2].verify
        /\ net1 \in {"Timeout", "ConnectionError"} => ~info.found
        /\ (Len(requests) = 2 /\ net2 # "200") => ~info.found
        /\ info.found => (IF Len(requests) = 2 THEN net2 ELSE net1) = "200"

\* A retry that met an SSL error itself: no third request, no update.
C21_Witness ==
    /\ Checked
    /\ Len(requests) = 2
    /\ net2 = "SSLError"
    /\ ~info.found

\* A name that ends with ".exe", whatever the case.
EndsWithExe(name) == LowerPart(name[2]) = ".exe"

\* The first asset of the release with such a name, NoUrl without one.
FirstValidAsset ==
    IF \E i \in DOMAIN assets : EndsWithExe(assets[i])
    THEN CHOOSE i \in DOMAIN assets :
            EndsWithExe(assets[i]) /\ \A j \in 1..(i - 1) : ~EndsWithExe(assets[j])
    ELSE NoUrl

\* C22: the download URL of an update is the browser_download_url of the
\* first asset whose name is valid, a name being valid exactly when it ends
\* with ".exe" in any case; without a valid asset there is no download URL.
C22_FirstValidAssetChosen ==
    /\ \A n \in AssetNames : IsValidAsset(n) <=> EndsWithExe(n)
    /\ (Checked /\ info.found) => info.download_url = FirstValidAsset

\* The steps of an update in their order; the fifth is the backup, done or
\* failed.
StepOrder ==
    <<{"check"}, {"confirm", "decline"}, {"download"}, {"verify", "reject"},
      {"backup", "backup failed"}, {"install"}>>

Took(step) == \E i \in DOMAIN steps : steps[i] = step

\* C29: the steps of perform_update_check_and_install come in the order
\* check, confirmation, download, verification, backup, install;
\* install_update runs only after the user confirmed, download_update gave
\* a file and verify_download accepted it (at least 1 MB, starting with
\* "MZ"); after a refusal nothing is downloaded and the process exits with
\* status 1; a failed backup does not stop the install.
C29_StepsInOrder ==
    /\ Len(steps) <= Len(StepOrder)
    /\ \A i \in DOMAIN steps : steps[i] \in StepOrder[i]
    /\ Took("install") =>
          /\ Took("confirm") /\ Took("download") /\ Took("verify")
          /\ file # NoDownload /\ file.size >= 1 /\ file.magic = "MZ"
    /\ Took("decline") <=> upc = "exit1"
    /\ Took("decline") => ~Took("download") /\ file = NoDownload
    /\ (Took("backup failed") /\ upc = "install") => ENABLED StepInstall(TRUE)

\* An update installed although the backup of the executable failed.
C29_Witness ==
    /\ upc = "exit0"
    /\ Took("backup failed")
    /\ Took("install")

(***************************************************************************)
(* SelectorSpec: the restore selector over the reset backup directory.     *)
(***************************************************************************)
Dated(seq) == SelectSeq(seq, LAMBDA e : e # UnknownFolder)

\* C23: the list _get_available_backups_and_folders returns is ordered by
\* backup timestamp, newest first, whatever the mix of manifest folders and
\* legacy files in the directory, and it holds every folder and every file
\* matching a pattern and no other file.
C23_ListNewestFirst ==
    shown =>
        /\ SortedByTimestamp(Dated(listing))
        /\ {listing[i] : i \in DOMAIN listing} = BackupItems(sdir)
        /\ \A e \in sdir : e.kind = "file" /\ ~Matches(e) =>
              \A i \in DOMAIN listing : listing[i] # e

Enumerated(w) ==
    /\ w.where = "reset_backups_dir"
    /\ \E i \in DOMAIN listing :
          /\ listing[i] = BackupFile(w.head, w.ts)
          /\ listing[i].head \in DOMAIN Patterns

\* C28: every backup file a patcher or a restore routine has written is in
\* the list the restore selector returns, with a file type that
\* _restore_backup_file dispatches to a target.
C28_EveryBackupSelectable ==
    shown => \A w \in written : Enumerated(w)

(***************************************************************************)
(* ComprehensiveSpec: restoring a backup folder file by file.              *)
(***************************************************************************)
RestoreRan == clast.op # "none" /\ clast.ran

FileFails(i) ==
    \/ ~cpresent[i]
    \/ clast.fault[i] \in {"copy", "torn"}
    \/ /\ clast.fault[i] = "pre"
       /\ clast.op = "comprehensive"
       /\ clast.before[i] # "absent"

\* C24: a restore of a backup folder attempts every file of the manifest
\* on its own: each file that does not fail is restored whatever happened
\* to the others, nothing is undone, the counts are the numbers of restored
\* and failed files, and the result is True exactly when no file failed.
C24_RestoreCountsNotAtomic ==
    RestoreRan =>
        /\ \A i \in ManifestFiles : ~FileFails(i) => ctargets[i] = "backup"
        /\ \A i \in ManifestFiles :
              FileFails(i) => ctargets[i] \in {clast.before[i], "torn"}
        /\ clast.failed = Cardinality({i \in ManifestFiles : FileFails(i)})
        /\ clast.restored = MaxManifest - clast.failed
        /\ clast.ret <=> (clast.failed = 0)

C24_Witness ==
    /\ RestoreRan
    /\ clast.op = "comprehensive"
    /\ FileFails(2)
    /\ \A i \in ManifestFiles \ {2} :
          ~FileFails(i) /\ clast.before[i] = "current" /\ ctargets[i] = "backup"
    /\ clast.ret = FALSE
    /\ clast.restored = MaxManifest - 1

(***************************************************************************)
(* Spec: the order in which a mutation applies its rules.                  *)
(***************************************************************************)
\* The text after the first k rules of the table.
RECURSIVE RuleOutput(_)
RuleOutput(k) ==
    IF k = 0 THEN ReadText(pre.target.content)
    ELSE SubFrom(RuleOutput(k - 1), 1, rules[k].pat, rules[k].rep,
                 UsesRegex(variant, rules[k]))

RuleMatches(k, text) ==
    \E j \in 1..Len(text) :
        MatchAt(text, j, rules[k].pat, UsesRegex(variant, rules[k]))

\* C25: the content a successful mutation writes is the rule table folded
\* from left to right over the content read: rule k works on the output of
\* rule k - 1, so it matches only text that the earlier rules left or
\* produced.
C25_RulesFoldInTableOrder ==
    Succeeded => target.content = WriteText(RuleOutput(Len(rules)))

\* The second rule of a table matched nothing in the original content and
\* rewrote text the first rule had produced.
C25_Witness ==
    /\ Succeeded
    /\ Len(rules) = 2
    /\ ~RuleMatches(2, RuleOutput(0))
    /\ RuleMatches(2, RuleOutput(1))
    /\ RuleOutput(2) # RuleOutput(1)
    /\ target.content = WriteText(RuleOutput(2))

(***************************************************************************)
(* MenuSpec: the main menu loop.                                           *)
(***************************************************************************)
\* C30: the main menu loop ends only by a confirmed exit: the application
\* has terminated only if the exit confirmation was answered yes, and after
\* the exit choice or Ctrl+C at the menu followed by a declined confirmation
\* it has not terminated.
C30_LoopEndsOnlyByConfirmedExit ==
    /\ Terminated => aanswer = "yes"
    /\ (achoice \in {ExitChoice, Cancelled} /\ aanswer = "no") => ~Terminated

====
